---- MODULE Spec2Model ----
(***************************************************************************)
(* Model of TaskSyncer: the Task record (src/Task.js), the TaskList        *)
(* registry (src/TaskList.js) and the Trello adapter                       *)
(* (src/TrelloInterface.js).                                               *)
(*                                                                         *)
(* JavaScript values are encoded as tuples of naturals whose first element *)
(* is the type tag, so that values of different JavaScript types can be    *)
(* compared with = :                                                       *)
(*   <<0>> undefined     <<1>> null          <<2, b>> boolean              *)
(*   <<3, n>> number     <<4, c1, ..>> string (character codes)            *)
(*   <<5, e1, ..>> array <<6, k1, ..>> plain object (its own keys)         *)
(*   <<7>> reference to the one array object held by config.json defaults  *)
(***************************************************************************)
EXTENDS FiniteSets, Integers, Naturals, Sequences, TLC

VARIABLES tasks, defaultsCategories, issued, ret, write, pass

vars == <<tasks, defaultsCategories, issued, ret, write, pass>>

---------------------------------------------------------------------------
(* JavaScript values *)

Undefined == <<0>>

Null == <<1>>

Bool(b) == <<2, IF b THEN 1 ELSE 0>>

Num(n) == <<3, n>>

Str(s) == <<4>> \o s

EmptyStr == <<4>>

List(s) == <<5>> \o s

Dict(s) == <<6>> \o s

DefaultsRef == <<7>>

TypeOf(v) ==
    CASE v[1] = 0 -> "undefined"
      [] v[1] = 2 -> "boolean"
      [] v[1] = 3 -> "number"
      [] v[1] = 4 -> "string"
      [] OTHER    -> "object"

IsArray(v) == v[1] = 5 \/ v[1] = 7

(* the elements of an array value; the defaults array is shared by reference *)
Elems(v, dc) == IF v = DefaultsRef THEN dc ELSE Tail(v)

(* JavaScript truthiness *)
Truthy(v) ==
    CASE v[1] = 0 -> FALSE
      [] v[1] = 1 -> FALSE
      [] v[1] = 2 -> v[2] = 1
      [] v[1] = 3 -> v[2] # 0
      [] v[1] = 4 -> Len(v) > 1
      [] OTHER    -> TRUE

SeqToSet(s) == {s[k] : k \in 1..Len(s)}

IndexOf(s, x) ==
    IF x \in SeqToSet(s) THEN (CHOOSE k \in 1..Len(s) : s[k] = x /\ \A j \in 1..(k-1) : s[j] # x) - 1
    ELSE -1

RemoveAt(s, k) == SubSeq(s, 1, k - 1) \o SubSeq(s, k + 1, Len(s))

---------------------------------------------------------------------------
(* Globals.fields, Globals.categories and config.json *)

F_TRELLO_ID == "TRELLO_ID"
F_GOOGLE_ID == "GOOGLE_ID"
F_NAME == "NAME"
F_DESCRIPTION == "DESCRIPTION"
F_DAYS == "DAYS"
F_IS_BEGINNER == "IS_BEGINNER"
F_MAX_INSTANCES == "MAX_INSTANCES"
F_CATEGORIES == "CATEGORIES"
F_TAGS == "TAGS"
F_LAST_MODIFIED == "LAST_MODIFIED"

FieldIds ==
    {F_TRELLO_ID, F_GOOGLE_ID, F_NAME, F_DESCRIPTION, F_DAYS, F_IS_BEGINNER,
     F_MAX_INSTANCES, F_CATEGORIES, F_TAGS, F_LAST_MODIFIED,
     "STATUS", "MENTORS", "EXTERNAL_URL", "COMPLETED_COUNT", "CLAIMED_COUNT",
     "AVAILABLE_COUNT"}

CODING == 1
DESIGN == 2
DOCS_TRAINING == 3
QA == 4
OUTRESEARCH == 5

Categories == {CODING, DESIGN, DOCS_TRAINING, QA, OUTRESEARCH}

(* config.json defaults: the fields that start as an empty array *)
Defaults == [f \in {F_CATEGORIES, F_TAGS} |-> IF f = F_CATEGORIES THEN DefaultsRef ELSE List(<<>>)]

---------------------------------------------------------------------------
(* Task (src/Task.js) *)

NewTask ==
    [fields |-> [f \in FieldIds |-> IF f \in DOMAIN Defaults THEN Defaults[f] ELSE Null],
     updatedFields |-> {},
     trelloId |-> Undefined,
     googleId |-> Undefined,
     googleTaskMade |-> FALSE,
     trelloCardMade |-> FALSE,
     listCategoryAdded |-> FALSE]

(* every operation yields the task, the defaults array, the error thrown and the value returned *)
Result(t, dc, err, val) == [t |-> t, dc |-> dc, err |-> err, val |-> val]

(* a reset that keeps the dirty set *)
resetUpdatedFieldsKeep(t) == t

resetUpdatedFields(t) == [t EXCEPT !.updatedFields = {}]

wasFieldUpdated(t, f) == f \in t.updatedFields

(* setField without the dirty mark *)
setFieldNoMark(t, dc, f, v) ==
    IF f \in DOMAIN t.fields
    THEN Result([t EXCEPT !.fields[f] = v], dc, "none", Undefined)
    ELSE Result(t, dc, "Error", Undefined)

(* setField without the known-field test *)
setFieldAnyKey(t, dc, f, v) ==
    Result([t EXCEPT !.fields = [g \in (DOMAIN t.fields) \cup {f} |-> IF g = f THEN v ELSE t.fields[g]],
                     !.updatedFields = @ \cup {f}], dc, "none", Undefined)

setField(t, dc, f, v) ==
    IF f \in DOMAIN t.fields
    THEN Result([t EXCEPT !.fields[f] = v, !.updatedFields = @ \cup {f}], dc, "none", Undefined)
    ELSE Result(t, dc, "Error", Undefined)

getField(t, dc, f) ==
    IF f \in DOMAIN t.fields
    THEN Result(t, dc, "none", t.fields[f])
    ELSE Result(t, dc, "Error", Undefined)

(* a "nothing" test that takes every falsy value for nothing *)
IsNothingFalsy(v, dc) ==
    IF v = Null THEN "throw"
    ELSE IF ~Truthy(v) THEN "return"
    ELSE IF TypeOf(v) = "object" /\ Len(Elems(v, dc)) = 0 THEN "return"
    ELSE "write"

(* the "nothing" test of setIfData's switch: "return", "write" or "throw" *)
IsNothing(v, dc) ==
    CASE TypeOf(v) = "undefined" -> "return"
      [] TypeOf(v) = "object" ->
            IF IsArray(v) /\ Len(Elems(v, dc)) = 0 THEN "return"
            ELSE IF v = Null THEN "throw"
            ELSE IF Len(Elems(v, dc)) = 0 THEN "return"
            ELSE "write"
      [] TypeOf(v) = "string" -> IF v = EmptyStr THEN "return" ELSE "write"
      [] OTHER -> "write"

setIfData(t, dc, f, v) ==
    LET cur == getField(t, dc, f) IN
    IF cur.err # "none" THEN cur
    ELSE IF cur.val # Null /\ IsNothing(v, dc) = "return" THEN Result(t, dc, "none", Undefined)
    ELSE IF cur.val # Null /\ IsNothing(v, dc) = "throw" THEN Result(t, dc, "TypeError", Undefined)
    ELSE setField(t, dc, f, v)

(* the array behind fields[CATEGORIES] after an in-place update *)
StoreCategories(t, dc, s) ==
    IF t.fields[F_CATEGORIES] = DefaultsRef
    THEN Result(t, s, "none", Undefined)
    ELSE Result([t EXCEPT !.fields[F_CATEGORIES] = List(s)], dc, "none", Undefined)

addCategory(t, dc, c) ==
    LET v == t.fields[F_CATEGORIES] IN
    IF ~IsArray(v) THEN Result(t, dc, "TypeError", Undefined)
    ELSE IF IndexOf(Elems(v, dc), c) < 0 THEN StoreCategories(t, dc, Append(Elems(v, dc), c))
    ELSE Result(t, dc, "none", Undefined)

removeCategory(t, dc, c) ==
    LET v == t.fields[F_CATEGORIES] IN
    IF TypeOf(v) = "string" THEN Result(t, dc, "none", Undefined)
    ELSE IF ~IsArray(v) THEN Result(t, dc, "TypeError", Undefined)
    ELSE IF IndexOf(Elems(v, dc), c) >= 0
         THEN StoreCategories(t, dc, RemoveAt(Elems(v, dc), IndexOf(Elems(v, dc), c) + 1))
         ELSE Result(t, dc, "none", Undefined)

(* the value a field holds, with the shared defaults array read through *)
FieldValue(t, dc, f) == IF t.fields[f] = DefaultsRef THEN List(dc) ELSE t.fields[f]

---------------------------------------------------------------------------
(* Raw Trello cards and their custom field items (RawTrello, RawCustomField).
   An item is <<20>> when the card has no item for the field, <<21>> for
   {value: null}, <<22, b>> for {value: {checked: "true" | "false"}},
   <<23, n>> for {value: {number: "n"}}, <<24, c1, ..>> for {value: {text}},
   <<25>> for a value of any other shape and <<26>> for {value: ""}. *)

NoItem == <<20>>

ItemNull == <<21>>

ItemChecked(b) == <<22, IF b THEN 1 ELSE 0>>

ItemNumber(n) == <<23, n>>

ItemText(s) == <<24>> \o s

ItemOther == <<25>>

ItemCleared == <<26>>

CF_googleId == "googleId"
CF_days == "days"
CF_isBeginner == "isBeginner"
CF_instances == "instances"
CF_tags == "tags"
CF_isDesign == "isDesign"
CF_isCode == "isCode"
CF_isDocs == "isDocs"
CF_isOutResearch == "isOutResearch"
CF_isQa == "isQa"

CustomFieldIds ==
    {CF_googleId, CF_days, CF_isBeginner, CF_instances, CF_tags,
     CF_isDesign, CF_isCode, CF_isDocs, CF_isOutResearch, CF_isQa}

(* config.json categoryLists: the list of each category; list ids are numbers here *)
CategoryLists == [c \in Categories |-> 10 + c]

NoCard ==
    [id |-> Undefined, desc |-> Undefined, name |-> Undefined, idList |-> 0,
     dateLastActivity |-> Undefined, hasItems |-> FALSE,
     items |-> [cf \in CustomFieldIds |-> NoItem]]

(* what an expression yields: the error it throws, or its value *)
Ok(v) == [err |-> "none", val |-> v]

Throw(e) == [err |-> e, val |-> Undefined]

---------------------------------------------------------------------------
(* TrelloInterface (src/TrelloInterface.js): reading a card *)

customFieldToValue(field) ==
    CASE field = NoItem -> Ok(Undefined)
      [] field = ItemNull -> Ok(Bool(FALSE))
      [] field[1] = 22 -> Ok(Bool(field[2] = 1))
      [] field[1] = 23 -> Ok(Undefined)
      [] field[1] = 24 -> Ok(Str(Tail(field)))
      [] OTHER -> Throw("TypeError")

getCustomFieldFromData(fieldId, data) ==
    IF data.hasItems THEN customFieldToValue(data.items[fieldId]) ELSE Ok(Undefined)

doesTaskMatchData(task, data) ==
    LET googleId == getCustomFieldFromData(CF_googleId, data) IN
    IF googleId.err # "none" THEN Throw(googleId.err)
    ELSE IF task.fields[F_TRELLO_ID] = data.id THEN Ok(Bool(TRUE))
    ELSE IF ~Truthy(googleId.val) THEN Ok(googleId.val)
    ELSE Ok(Bool(task.fields[F_GOOGLE_ID] = googleId.val))

(* the custom fields parseCategories reads, in its order, with their category *)
CategoryFields ==
    <<[cf |-> CF_isDesign, cat |-> DESIGN], [cf |-> CF_isCode, cat |-> CODING],
      [cf |-> CF_isDocs, cat |-> DOCS_TRAINING], [cf |-> CF_isOutResearch, cat |-> OUTRESEARCH],
      [cf |-> CF_isQa, cat |-> QA]>>

(* a lookup that finds no list *)
ListCategoryNone(idList) == 0

(* the category whose list the card is in, 0 when the list is no category list *)
ListCategory(idList) ==
    IF \E c \in Categories : CategoryLists[c] = idList
    THEN CHOOSE c \in Categories : CategoryLists[c] = idList
    ELSE 0

(* the categories of the checked category fields, in reading order *)
CheckedCategories(rawCard) ==
    LET flag(k) == IF Truthy(getCustomFieldFromData(CategoryFields[k].cf, rawCard).val)
                   THEN <<CategoryFields[k].cat>> ELSE <<>>
    IN flag(1) \o flag(2) \o flag(3) \o flag(4) \o flag(5)

parseCategories(t, dc, rawCard) ==
    LET reads == [k \in 1..5 |-> getCustomFieldFromData(CategoryFields[k].cf, rawCard)]
        explicit == CheckedCategories(rawCard)
        listId == ListCategory(rawCard.idList)
        added == listId # 0 /\ listId \notin SeqToSet(explicit)
        taskCategories == IF added THEN Append(explicit, listId) ELSE explicit
        flagged == IF added THEN [t EXCEPT !.listCategoryAdded = TRUE] ELSE t
    IN IF \E k \in 1..5 : reads[k].err # "none"
       THEN Result(t, dc, "TypeError", Undefined)
       ELSE setIfData(flagged, dc, F_CATEGORIES, List(taskCategories))

(* a tag string stands for its comma-separated parts, one element each *)
parseTags(rawCard) ==
    LET tagString == getCustomFieldFromData(CF_tags, rawCard) IN
    IF tagString.err # "none" THEN tagString
    ELSE IF tagString.val # Undefined /\ tagString.val # EmptyStr
         THEN (IF TypeOf(tagString.val) = "string" THEN Ok(List(Tail(tagString.val))) ELSE Throw("TypeError"))
         ELSE Ok(List(<<>>))

(* one statement of loadIntoTask: evaluate the argument, then setIfData, unless
   an earlier statement threw *)
ThenSetIfData(r, f, arg) ==
    IF r.err # "none" THEN r
    ELSE IF arg.err # "none" THEN Result(r.t, r.dc, arg.err, Undefined)
    ELSE setIfData(r.t, r.dc, f, arg.val)

loadIntoTask(rawCard, t, dc) ==
    LET s1 == ThenSetIfData(Result(t, dc, "none", Undefined), F_TRELLO_ID, Ok(rawCard.id))
        s2 == ThenSetIfData(s1, F_DESCRIPTION, Ok(rawCard.desc))
        s3 == ThenSetIfData(s2, F_NAME, Ok(rawCard.name))
        s4 == ThenSetIfData(s3, F_GOOGLE_ID, getCustomFieldFromData(CF_googleId, rawCard))
        s5 == ThenSetIfData(s4, F_DAYS, getCustomFieldFromData(CF_days, rawCard))
        s6 == ThenSetIfData(s5, F_IS_BEGINNER, getCustomFieldFromData(CF_isBeginner, rawCard))
        s7 == ThenSetIfData(s6, F_MAX_INSTANCES, getCustomFieldFromData(CF_instances, rawCard))
        s8 == IF s7.err # "none" THEN s7 ELSE parseCategories(s7.t, s7.dc, rawCard)
        s9 == ThenSetIfData(s8, F_TAGS, parseTags(rawCard))
    IN ThenSetIfData(s9, F_LAST_MODIFIED, Ok(rawCard.dateLastActivity))

---------------------------------------------------------------------------
(* TaskList (src/TaskList.js): the registry *)

(* findIndex: the least index of the set, 0 when the set is empty *)
FirstIndex(S) == IF S = {} THEN 0 ELSE CHOOSE k \in S : \A j \in S : k <= j

(* both get-or-create operations yield the registry and the index of the record returned *)
getTaskFromGoogle(ts, id) ==
    LET index == FirstIndex({k \in 1..Len(ts) : ts[k].googleId = id})
    IN IF index = 0
       THEN [tasks |-> Append(ts, [NewTask EXCEPT !.googleId = id]), index |-> Len(ts) + 1]
       ELSE [tasks |-> ts, index |-> index]

(* get-or-create that never finds *)
getTaskFromTrelloNoScan(ts, id) ==
    [tasks |-> Append(ts, [NewTask EXCEPT !.trelloId = id]), index |-> Len(ts) + 1]

getTaskFromTrello(ts, id) ==
    LET index == FirstIndex({k \in 1..Len(ts) : ts[k].trelloId = id})
    IN IF index = 0
       THEN [tasks |-> Append(ts, [NewTask EXCEPT !.trelloId = id]), index |-> Len(ts) + 1]
       ELSE [tasks |-> ts, index |-> index]

(* TaskList.getOrMakeTask(predicate), as loadAllTasks calls it with
   doesTaskMatchData: linear scan, create on miss *)
getOrMakeTask(ts, rawCard) ==
    LET index == FirstIndex({k \in 1..Len(ts) : Truthy(doesTaskMatchData(ts[k], rawCard).val)})
    IN IF index = 0
       THEN [tasks |-> Append(ts, NewTask), index |-> Len(ts) + 1]
       ELSE [tasks |-> ts, index |-> index]

(* Task.loadFromTrello(item), the parse TaskList.loadFromTrello applies to the
   record it looked up: the board adapter's parse *)
loadFromTrello(item, t, dc) == loadIntoTask(item, t, dc)

(* Task.loadFromGoogle(taskData), the parse TaskList._loadFromGoogle applies:
   conditional writes of the payload's id and name *)
loadFromGoogle(taskData, t, dc) ==
    ThenSetIfData(ThenSetIfData(Result(t, dc, "none", Undefined), F_GOOGLE_ID, Ok(taskData.id)),
                  F_NAME, Ok(taskData.name))

(* a reset that leaves the flag as it was *)
KeepListCategoryAdded(t) == t

(* task.listCategoryAdded = false, before each parse of loadAllTasks *)
ClearListCategoryAdded(t) == [t EXCEPT !.listCategoryAdded = FALSE]

(* the loop of loadAllTasks over rawCards[k..]: the registry, the defaults
   array, the error thrown, the index of the record of each card and the
   indices pushed to tasksToUpdate *)
RECURSIVE LoadCards(_, _, _, _, _, _)
LoadCards(ts, dc, rawCards, k, found, tasksToUpdate) ==
    IF k > Len(rawCards)
    THEN [tasks |-> ts, dc |-> dc, err |-> "none", found |-> found, tasksToUpdate |-> tasksToUpdate]
    ELSE LET got == getOrMakeTask(ts, rawCards[k])
             task == ClearListCategoryAdded(got.tasks[got.index])
             r == loadIntoTask(rawCards[k], task, dc)
             ts2 == [got.tasks EXCEPT ![got.index] = r.t]
         IN IF r.err # "none"
            THEN [tasks |-> ts2, dc |-> r.dc, err |-> r.err, found |-> Append(found, got.index),
                  tasksToUpdate |-> tasksToUpdate]
            ELSE LoadCards(ts2, r.dc, rawCards, k + 1, Append(found, got.index),
                           IF r.t.listCategoryAdded THEN Append(tasksToUpdate, got.index)
                           ELSE tasksToUpdate)

loadAllTasks(ts, dc, rawCards) == LoadCards(ts, dc, rawCards, 1, <<>>, <<>>)

---------------------------------------------------------------------------
(* Calls on one Task: the record operations, each applied to tasks[i] *)

(* what the last call was, what it threw and returned, and the state it started from *)
Outcome(op, i, f, v, err, val) ==
    [op |-> op, idx |-> i, field |-> f, value |-> v, err |-> err, val |-> val,
     cards |-> <<>>, pre |-> tasks, preDc |-> defaultsCategories]

NoCall ==
    [op |-> "none", idx |-> 0, field |-> "", value |-> Undefined, err |-> "none",
     val |-> Undefined, cards |-> <<>>, pre |-> <<>>, preDc |-> <<>>]

(* the record first returned for each id by the get-or-create operations, 0 when none *)
TrelloIds == {Str(<<1>>), Str(<<2>>)}

GoogleIds == {Str(<<1>>), Str(<<2>>)}

NoneIssued == [trello |-> [id \in TrelloIds |-> 0], google |-> [id \in GoogleIds |-> 0]]

(* the write of a task to the board that is under way: where its promise chain
   stands, the raw custom fields it serialised, the custom fields still to be
   sent, the requests it has issued and the responses it has had, and the
   altered fields writeFields has still to go through *)
NoWrite ==
    [pc |-> "idle", idx |-> 0, raw |-> <<>>, pending |-> <<>>, requests |-> <<>>,
     createCalls |-> 0, main |-> "none", create |-> "none", newId |-> Undefined,
     err |-> "none", pre |-> NewTask, preDc |-> <<>>, todo |-> <<>>]

(* the pass over the registry that is under way (a batch write, a bulk load,
   the handling of a webhook): where its promise stands, the state of each of
   its parts, and what it has done so far, in order *)
NoPass == [op |-> "none", pc |-> "idle", parts |-> <<>>, log |-> <<>>]

(* a call is made when the caller holds no unread outcome *)
Apply(op, i, f, v, result) ==
    /\ ret = NoCall
    /\ \E r \in {result} :
        /\ tasks' = [tasks EXCEPT ![i] = r.t]
        /\ defaultsCategories' = r.dc
        /\ ret' = Outcome(op, i, f, v, r.err, r.val)
    /\ UNCHANGED <<issued, write, pass>>

TestValues ==
    {Undefined, Null, Bool(TRUE), Bool(FALSE), Num(0), Num(1), EmptyStr, Str(<<1>>),
     List(<<>>), List(<<CODING>>), Dict(<<>>), Dict(<<1>>)}

UnknownField == "BOGUS"

TestFields == {F_NAME, F_CATEGORIES, UnknownField}

TestCategories == {CODING, QA}

CallSetField(i) ==
    \E f \in TestFields, v \in TestValues :
        Apply("setField", i, f, v, setField(tasks[i], defaultsCategories, f, v))

CallSetIfData(i) ==
    \E f \in TestFields, v \in TestValues :
        Apply("setIfData", i, f, v, setIfData(tasks[i], defaultsCategories, f, v))

CallGetField(i) ==
    \E f \in TestFields :
        Apply("getField", i, f, Undefined, getField(tasks[i], defaultsCategories, f))

CallResetUpdatedFields(i) ==
    Apply("resetUpdatedFields", i, "", Undefined,
          Result(resetUpdatedFields(tasks[i]), defaultsCategories, "none", Undefined))

CallWasFieldUpdated(i) ==
    \E f \in TestFields :
        Apply("wasFieldUpdated", i, f, Undefined,
              Result(tasks[i], defaultsCategories, "none", Bool(wasFieldUpdated(tasks[i], f))))

CallAddCategory(i) ==
    \E c \in TestCategories :
        Apply("addCategory", i, F_CATEGORIES, Num(c), addCategory(tasks[i], defaultsCategories, c))

CallRemoveCategory(i) ==
    \E c \in TestCategories :
        Apply("removeCategory", i, F_CATEGORIES, Num(c), removeCategory(tasks[i], defaultsCategories, c))

(* the caller takes the outcome of the call and goes on *)
Continue ==
    /\ ret # NoCall
    /\ ret' = NoCall
    /\ UNCHANGED <<tasks, defaultsCategories, issued, write, pass>>

InitTask ==
    /\ tasks = <<NewTask>>
    /\ defaultsCategories = <<>>
    /\ issued = NoneIssued
    /\ ret = NoCall
    /\ write = NoWrite
    /\ pass = NoPass

NextTask ==
    \/ CallSetField(1)
    \/ CallSetIfData(1)
    \/ CallGetField(1)
    \/ CallResetUpdatedFields(1)
    \/ CallWasFieldUpdated(1)
    \/ CallAddCategory(1)
    \/ CallRemoveCategory(1)
    \/ Continue

SpecTask == InitTask /\ [][NextTask]_vars

---------------------------------------------------------------------------
(* Properties of the record operations, checked under SpecTask *)

(* the record the last call was made on, before and after it *)
Before == ret.pre[ret.idx]

After == tasks[ret.idx]

EmptyIncoming == {Undefined, EmptyStr, List(<<>>), Dict(<<>>), Null}

(* C5: setIfMeaningful with an empty incoming value (undefined, "", [], {} or
   null) on a known field whose current value is non-null completes without
   error and leaves the field values and the dirty set as they were. *)
C5_EmptyIncomingIsNoOp ==
    (ret.op = "setIfData" /\ ret.field \in FieldIds
        /\ Before.fields[ret.field] # Null /\ ret.value \in EmptyIncoming)
    => (ret.err = "none" /\ tasks = ret.pre /\ defaultsCategories = ret.preDc)

(* C6: when the current value is null, or the incoming value is not empty
   (false and 0 included), setIfMeaningful does what set does: the field holds
   the incoming value and is dirty. *)
C6_WritesLikeSet ==
    (ret.op = "setIfData" /\ ret.field \in FieldIds
        /\ (Before.fields[ret.field] = Null \/ ret.value \notin EmptyIncoming))
    => /\ ret.err = "none"
       /\ After.fields[ret.field] = ret.value
       /\ ret.field \in After.updatedFields
       /\ After = setField(Before, ret.preDc, ret.field, ret.value).t
       /\ defaultsCategories = ret.preDc

C6_Witness ==
    /\ ret.op = "setIfData"
    /\ ret.field = F_NAME
    /\ Before.fields[F_NAME] = Str(<<1>>)
    /\ ret.value = Bool(FALSE)
    /\ After.fields[F_NAME] = Bool(FALSE)
    /\ F_NAME \in After.updatedFields

(* C7: after set(f, v), get(f) returns exactly v, f is dirty and no other field
   changed; after clearDirty no field is dirty and no field value changed. *)
C7_GetSetRoundTrip ==
    /\ (ret.op = "setField" /\ ret.field \in FieldIds)
       => /\ ret.err = "none"
          /\ getField(After, defaultsCategories, ret.field) = Result(After, defaultsCategories, "none", ret.value)
          /\ wasFieldUpdated(After, ret.field)
          /\ \A g \in FieldIds \ {ret.field} : After.fields[g] = Before.fields[g]
          /\ defaultsCategories = ret.preDc
    /\ ret.op = "resetUpdatedFields"
       => /\ \A g \in FieldIds : ~wasFieldUpdated(After, g)
          /\ After.fields = Before.fields
          /\ defaultsCategories = ret.preDc

C7_Witness ==
    /\ ret.op = "setField"
    /\ ret.field = F_NAME
    /\ ret.value = List(<<CODING>>)
    /\ Before.fields[F_NAME] = Str(<<1>>)
    /\ F_NAME \notin Before.updatedFields
    /\ After.fields[F_NAME] = List(<<CODING>>)

(* C8: get, set and setIfMeaningful with a field identifier outside the known
   set fail with an error and leave the field values and the dirty set
   unchanged; no field is added to the record. *)
C8_UnknownFieldRejected ==
    (ret.op \in {"getField", "setField", "setIfData"} /\ ret.field \notin FieldIds)
    => /\ ret.err = "Error"
       /\ tasks = ret.pre
       /\ defaultsCategories = ret.preDc
       /\ DOMAIN After.fields = FieldIds

C8_Witness ==
    /\ ret.op = "setIfData"
    /\ ret.field = UnknownField
    /\ ret.value = Str(<<1>>)
    /\ ret.err = "Error"
    /\ F_NAME \in After.updatedFields

(* C9: every operation that changes the value of a field marks that field
   dirty: after any call other than clearDirty, a field whose value differs
   from the value it had before the call is in the dirty set. *)
C9_ChangedFieldsAreDirty ==
    (ret.op \notin {"none", "resetUpdatedFields"})
    => \A f \in FieldIds :
          FieldValue(After, defaultsCategories, f) # FieldValue(Before, ret.preDc, f)
          => f \in After.updatedFields

---------------------------------------------------------------------------
(* The registry under load passes from both sources *)

MaxTasks == 2

MaxCards == 2

(* a card of the board with the given id and cross-system id item *)
IdCard(id, googleIdItem) ==
    [NoCard EXCEPT !.id = id, !.desc = EmptyStr, !.name = Str(<<3>>),
                   !.idList = CategoryLists[CODING], !.dateLastActivity = Str(<<9>>),
                   !.hasItems = TRUE,
                   !.items = [@ EXCEPT ![CF_googleId] = googleIdItem, ![CF_isCode] = ItemChecked(TRUE)]]

IdCards == {IdCard(id, g) : id \in TrelloIds, g \in {NoItem, ItemText(<<1>>)}}

GoogleTasks == {[id |-> id, name |-> Str(<<3>>)] : id \in GoogleIds}

Batches(CardSet, n) == UNION {[1..m -> CardSet] : m \in 0..n}

(* the callback of TaskList.loadFromTrello for one item of a fetched list *)
LoadFromTrelloItem ==
    \E item \in IdCards :
        \E got \in {getTaskFromTrello(tasks, item.id)} :
        \E r \in {loadFromTrello(item, got.tasks[got.index], defaultsCategories)} :
           /\ ret = NoCall
           /\ Len(got.tasks) <= MaxTasks
           /\ tasks' = [got.tasks EXCEPT ![got.index] = r.t]
           /\ defaultsCategories' = r.dc
           /\ issued' = [issued EXCEPT !.trello[item.id] = IF @ = 0 THEN got.index ELSE @]
           /\ UNCHANGED <<write, pass>>
           /\ ret' = [Outcome("getTaskFromTrello", got.index, "", item.id, r.err, Undefined)
                        EXCEPT !.cards = <<item>>]

(* the callback of TaskList._loadFromGoogle for one result of a fetched page *)
LoadFromGoogleResult ==
    \E taskData \in GoogleTasks :
        \E got \in {getTaskFromGoogle(tasks, taskData.id)} :
        \E r \in {loadFromGoogle(taskData, got.tasks[got.index], defaultsCategories)} :
           /\ ret = NoCall
           /\ Len(got.tasks) <= MaxTasks
           /\ tasks' = [got.tasks EXCEPT ![got.index] = r.t]
           /\ defaultsCategories' = r.dc
           /\ issued' = [issued EXCEPT !.google[taskData.id] = IF @ = 0 THEN got.index ELSE @]
           /\ UNCHANGED <<write, pass>>
           /\ ret' = Outcome("getTaskFromGoogle", got.index, "", taskData.id, r.err, Undefined)

(* the callback of TrelloInterface.loadAllTasks for the fetched cards *)
LoadAllTasks(rawCards) ==
    /\ ret = NoCall
    /\ \E r \in {loadAllTasks(tasks, defaultsCategories, rawCards)} :
       /\ Len(r.tasks) <= MaxTasks
       /\ tasks' = r.tasks
       /\ defaultsCategories' = r.dc
       /\ UNCHANGED <<issued, write, pass>>
       /\ ret' = [Outcome("loadAllTasks", IF r.found = <<>> THEN 0 ELSE r.found[Len(r.found)], "",
                          Undefined, r.err, List(r.tasksToUpdate))
                    EXCEPT !.cards = rawCards, !.value = List(r.found)]

LoadAllTasksIds == \E rawCards \in Batches(IdCards, MaxCards) : LoadAllTasks(rawCards)

Init ==
    /\ tasks = <<>>
    /\ defaultsCategories = <<>>
    /\ issued = NoneIssued
    /\ ret = NoCall
    /\ write = NoWrite
    /\ pass = NoPass

Next ==
    \/ LoadFromTrelloItem
    \/ LoadFromGoogleResult
    \/ LoadAllTasksIds
    \/ Continue

Spec == Init /\ [][Next]_vars

HoldsId(v) == v # Null /\ v # Undefined

(* C1: in every state reached by load passes from the two sources, no two
   distinct records hold the same non-null board id and no two hold the same
   non-null program id. *)
C1_UniqueSourceIds ==
    \A i, j \in 1..Len(tasks) :
        i # j =>
            /\ ~(HoldsId(tasks[i].fields[F_TRELLO_ID]) /\ tasks[i].fields[F_TRELLO_ID] = tasks[j].fields[F_TRELLO_ID])
            /\ ~(HoldsId(tasks[i].fields[F_GOOGLE_ID]) /\ tasks[i].fields[F_GOOGLE_ID] = tasks[j].fields[F_GOOGLE_ID])
            /\ ~(HoldsId(tasks[i].trelloId) /\ tasks[i].trelloId = tasks[j].trelloId)
            /\ ~(HoldsId(tasks[i].googleId) /\ tasks[i].googleId = tasks[j].googleId)

(* C2: a get-or-create by id returns a record that holds the id; the registry
   grows by one when no record held the id and by zero otherwise; every call
   with an id returns the record the first call with that id returned; and
   different ids are given different records. *)
C2_GetOrCreateById ==
    /\ ret.op = "getTaskFromTrello"
       => /\ tasks[ret.idx].trelloId = ret.value
          /\ Len(tasks) = Len(ret.pre) + (IF \E k \in 1..Len(ret.pre) : ret.pre[k].trelloId = ret.value THEN 0 ELSE 1)
          /\ issued.trello[ret.value] = ret.idx
    /\ ret.op = "getTaskFromGoogle"
       => /\ tasks[ret.idx].googleId = ret.value
          /\ Len(tasks) = Len(ret.pre) + (IF \E k \in 1..Len(ret.pre) : ret.pre[k].googleId = ret.value THEN 0 ELSE 1)
          /\ issued.google[ret.value] = ret.idx
    /\ \A a, b \in TrelloIds : (a # b /\ issued.trello[a] # 0) => issued.trello[a] # issued.trello[b]
    /\ \A a, b \in GoogleIds : (a # b /\ issued.google[a] # 0) => issued.google[a] # issued.google[b]
    /\ \A k \in 1..Len(ret.pre) :
          k <= Len(tasks) /\ tasks[k].trelloId = ret.pre[k].trelloId /\ tasks[k].googleId = ret.pre[k].googleId

C2_Witness ==
    /\ ret.op = "getTaskFromTrello"
    /\ ret.idx = 1
    /\ Len(ret.pre) = 2
    /\ Len(tasks) = 2
    /\ issued.trello[ret.value] = 1
    /\ \E other \in TrelloIds : other # ret.value /\ issued.trello[other] = 2
    /\ tasks[1].fields[F_GOOGLE_ID] = Str(<<1>>)

---------------------------------------------------------------------------
(* The board adapter's parse of one card into its record, over cards that
   differ in their category checkboxes, their list and their activity date *)

UnmappedList == 99

CatCard(isCode, isQa, idList, date, hasItems) ==
    [NoCard EXCEPT !.id = Str(<<1>>), !.desc = EmptyStr, !.name = Str(<<3>>),
                   !.idList = idList, !.dateLastActivity = date, !.hasItems = hasItems,
                   !.items = [@ EXCEPT ![CF_isCode] = isCode, ![CF_isQa] = isQa]]

CatCards ==
    {CatCard(isCode, isQa, idList, date, hasItems) :
        isCode \in {NoItem, ItemChecked(TRUE), ItemChecked(FALSE)},
        isQa \in {NoItem, ItemChecked(TRUE)},
        idList \in {CategoryLists[CODING], CategoryLists[QA], UnmappedList},
        date \in {Undefined, Str(<<8>>), Str(<<9>>)},
        hasItems \in BOOLEAN}

LoadAllTasksCat == \E card \in CatCards : LoadAllTasks(<<card>>)

InitParse ==
    /\ tasks = <<>>
    /\ defaultsCategories = <<>>
    /\ issued = NoneIssued
    /\ ret = NoCall
    /\ write = NoWrite
    /\ pass = NoPass

NextParse ==
    \/ LoadAllTasksCat
    \/ Continue

SpecParse == InitParse /\ [][NextParse]_vars

(* a parse of one card has just been made *)
Parsed == ret.op = "loadAllTasks" /\ Len(ret.cards) = 1

(* the record the card was parsed into, as it was before the parse *)
BeforeParse == IF ret.idx <= Len(ret.pre) THEN ret.pre[ret.idx] ELSE NewTask

CategoryFieldOf ==
    [c \in Categories |->
        CASE c = DESIGN -> CF_isDesign
          [] c = CODING -> CF_isCode
          [] c = DOCS_TRAINING -> CF_isDocs
          [] c = OUTRESEARCH -> CF_isOutResearch
          [] OTHER -> CF_isQa]

(* the categories checked on the card, united with the category of its list *)
CardCategories(card) ==
    {c \in Categories : card.hasItems /\ card.items[CategoryFieldOf[c]] = ItemChecked(TRUE)}
        \cup {c \in Categories : CategoryLists[c] = card.idList}

CategorySet(t, dc) == SeqToSet(Elems(t.fields[F_CATEGORIES], dc))

(* C10: after the adapter parses a card into a record, the record's category
   set equals the categories checked on the card united with the category of
   the card's list when the list is mapped; with an unmapped list nothing is
   added and the parse still completes. *)
C10_CategorySetReconstructed ==
    Parsed => /\ ret.err = "none"
              /\ CategorySet(After, defaultsCategories) = CardCategories(ret.cards[1])

(* C10, amended: the parse completes, mapped list or not; when the card has a
   checked category or a mapped list the record's category set equals the
   checked categories united with the list's category; when it has neither,
   the record's category field is left as it was before the parse. *)
C10_CategorySetReconstructedUnlessEmpty ==
    Parsed => /\ ret.err = "none"
              /\ IF CardCategories(ret.cards[1]) # {}
                 THEN CategorySet(After, defaultsCategories) = CardCategories(ret.cards[1])
                 ELSE /\ After.fields[F_CATEGORIES] = BeforeParse.fields[F_CATEGORIES]
                      /\ defaultsCategories = ret.preDc

C10_Witness ==
    /\ Parsed
    /\ ret.cards[1].idList = UnmappedList
    /\ CardCategories(ret.cards[1]) = {}
    /\ CategorySet(BeforeParse, ret.preDc) = {CODING, QA}
    /\ CategorySet(After, defaultsCategories) = {CODING, QA}

---------------------------------------------------------------------------
(* TrelloInterface (src/TrelloInterface.js): from a task to the board *)

mainToRaw(t) ==
    [hasId |-> TRUE, id |-> t.fields[F_TRELLO_ID], desc |-> t.fields[F_DESCRIPTION],
     name |-> t.fields[F_NAME], idList |-> 0]

NoMain == [hasId |-> FALSE, id |-> Undefined, desc |-> Undefined, name |-> Undefined, idList |-> 0]

valueToCustomField(value) ==
    CASE TypeOf(value) = "boolean" -> Ok(ItemChecked(value[2] = 1))
      [] TypeOf(value) = "string" -> Ok(ItemText(Tail(value)))
      [] TypeOf(value) = "number" -> Ok(ItemNumber(value[2]))
      [] OTHER -> Throw("TypeError")

getCustomFieldFromTask(fieldId, t) == valueToCustomField(t.fields[fieldId])

(* join(", ") of the tags: the text whose comma-separated parts are the elements *)
serialiseTags(t, dc) ==
    IF IsArray(t.fields[F_TAGS]) THEN Ok(ItemText(Elems(t.fields[F_TAGS], dc)))
    ELSE Throw("TypeError")

(* taskCategories.includes(c): membership for an array, a search for the
   category's digit for a string *)
Includes(v, dc, c) ==
    IF IsArray(v) THEN c \in SeqToSet(Elems(v, dc)) ELSE (48 + c) \in SeqToSet(Tail(v))

serialiseCategories(t, dc) ==
    LET taskCategories == t.fields[F_CATEGORIES]
        item(c) == IF Includes(taskCategories, dc, c) THEN ItemChecked(TRUE) ELSE ItemCleared
    IN IF ~IsArray(taskCategories) /\ TypeOf(taskCategories) # "string"
       THEN Throw("TypeError")
       ELSE Ok([cf \in {CF_isCode, CF_isQa, CF_isOutResearch, CF_isDocs, CF_isDesign} |->
                    CASE cf = CF_isCode -> item(CODING)
                      [] cf = CF_isQa -> item(QA)
                      [] cf = CF_isOutResearch -> item(OUTRESEARCH)
                      [] cf = CF_isDocs -> item(DOCS_TRAINING)
                      [] OTHER -> item(DESIGN)])

(* the keys of the object customToRaw builds, in insertion order *)
RawOrder ==
    <<CF_isCode, CF_isQa, CF_isOutResearch, CF_isDocs, CF_isDesign,
      CF_tags, CF_googleId, CF_days, CF_isBeginner, CF_instances>>

customToRaw(t, dc) ==
    LET cats == serialiseCategories(t, dc)
        tags == serialiseTags(t, dc)
        googleId == getCustomFieldFromTask(F_GOOGLE_ID, t)
        days == getCustomFieldFromTask(F_DAYS, t)
        isBeginner == getCustomFieldFromTask(F_IS_BEGINNER, t)
        instances == getCustomFieldFromTask(F_MAX_INSTANCES, t)
    IN IF \/ cats.err # "none" \/ tags.err # "none" \/ googleId.err # "none"
          \/ days.err # "none" \/ isBeginner.err # "none" \/ instances.err # "none"
       THEN Throw("TypeError")
       ELSE Ok([cf \in CustomFieldIds |->
                    CASE cf = CF_tags -> tags.val
                      [] cf = CF_googleId -> googleId.val
                      [] cf = CF_days -> days.val
                      [] cf = CF_isBeginner -> isBeginner.val
                      [] cf = CF_instances -> instances.val
                      [] OTHER -> cats.val[cf]])

(* a request to the board: the requester's function, the card addressed, the
   custom field and its raw value, or the main section sent *)
Request(op, cardId, field, value, main) ==
    [op |-> op, cardId |-> cardId, field |-> field, value |-> value, main |-> main]

(* createCard up to its request: the task and the defaults array after the
   pop, the error thrown, and the main section submitted *)
createCard(t, dc) ==
    LET cardCategories == t.fields[F_CATEGORIES]
        elems == Elems(cardCategories, dc)
        popped == IF elems # <<>> THEN StoreCategories(t, dc, SubSeq(elems, 1, Len(elems) - 1))
                  ELSE Result(t, dc, "none", Undefined)
        listId == IF elems # <<>> THEN CategoryLists[elems[Len(elems)]] ELSE CategoryLists[1]
    IN IF ~IsArray(cardCategories)
       THEN Result(t, dc, "TypeError", NoMain)
       ELSE Result(popped.t, popped.dc, "none",
                   [mainToRaw(popped.t) EXCEPT !.hasId = FALSE, !.id = Undefined, !.idList = listId])

(* the handler writeOrCreate attaches to a rejected updateCardMain: what it
   goes on to for the status code of the rejection *)
OnUpdateRejectedIgnore(statusCode) == "undefined"

OnUpdateRejected(statusCode) == IF statusCode = 404 THEN "createCard" ELSE "undefined"

---------------------------------------------------------------------------
(* writeTask as the steps of its promise chain: each action runs from one
   response of the board to the next request *)

StatusCodes == {404, 500}

NewCardIds == {Str(<<5>>), Str(<<6>>)}

Issue(w, request) == [w EXCEPT !.requests = Append(@, request)]

(* the callback after writeOrCreate: _updateAllFields up to its first await *)
UpdateAllFields(w, t) ==
    Issue([w EXCEPT !.pc = "updateCustomField", !.pending = RawOrder],
          Request("updateCustomField", t.fields[F_TRELLO_ID], RawOrder[1], w.raw[RawOrder[1]], NoMain))

(* createCard called for tasks[i]: it throws, or its request goes out *)
CallCreateCard(w, i, thrownAs) ==
    \E r \in {createCard(tasks[i], defaultsCategories)} :
        /\ tasks' = [tasks EXCEPT ![i] = r.t]
        /\ defaultsCategories' = r.dc
        /\ write' = IF r.err # "none"
                    THEN [w EXCEPT !.pc = thrownAs, !.err = r.err, !.createCalls = @ + 1]
                    ELSE Issue([w EXCEPT !.pc = "createCard", !.createCalls = @ + 1],
                               Request("createCard", Undefined, "", Undefined, r.val))

(* writeTask up to the first request of writeOrCreate: the task and the
   defaults array after it, the error thrown, the raw custom fields, the
   request that went out and the number of createCard calls made *)
writeTaskBegin(task, dc) ==
    LET t == resetUpdatedFields(task)
        raw == customToRaw(t, dc)
        made == createCard(t, dc)
    IN IF raw.err # "none"
       THEN [t |-> t, dc |-> dc, err |-> raw.err, raw |-> <<>>, requests |-> <<>>,
             pc |-> "thrown", createCalls |-> 0]
       ELSE IF Truthy(t.fields[F_TRELLO_ID])
       THEN [t |-> t, dc |-> dc, err |-> "none", raw |-> raw.val,
             requests |-> <<Request("updateCardMain", t.fields[F_TRELLO_ID], "", Undefined, mainToRaw(t))>>,
             pc |-> "updateCardMain", createCalls |-> 0]
       ELSE IF made.err # "none"
       THEN [t |-> made.t, dc |-> made.dc, err |-> made.err, raw |-> raw.val, requests |-> <<>>,
             pc |-> "thrown", createCalls |-> 1]
       ELSE [t |-> made.t, dc |-> made.dc, err |-> "none", raw |-> raw.val,
             requests |-> <<Request("createCard", Undefined, "", Undefined, made.val)>>,
             pc |-> "createCard", createCalls |-> 1]

WriteTask(i) ==
    /\ write.pc = "idle"
    /\ ret = NoCall
    /\ \E b \in {writeTaskBegin(tasks[i], defaultsCategories)} :
          /\ tasks' = [tasks EXCEPT ![i] = b.t]
          /\ defaultsCategories' = b.dc
          /\ write' = [NoWrite EXCEPT !.idx = i, !.pre = tasks[i], !.preDc = defaultsCategories,
                                      !.pc = b.pc, !.err = b.err, !.raw = b.raw,
                                      !.requests = b.requests, !.createCalls = b.createCalls]
    /\ UNCHANGED <<issued, ret, pass>>

(* updateCardMain fulfils *)
UpdateCardMainOk ==
    /\ write.pc = "updateCardMain"
    /\ write' = UpdateAllFields([write EXCEPT !.main = "ok"], tasks[write.idx])
    /\ UNCHANGED <<tasks, defaultsCategories, issued, ret, pass>>

(* updateCardMain rejects with a status code: the catch handler runs *)
UpdateCardMainRejected ==
    /\ write.pc = "updateCardMain"
    /\ \E statusCode \in StatusCodes :
       \E w \in {[write EXCEPT !.main = IF statusCode = 404 THEN "notFound" ELSE "failed"]} :
          IF OnUpdateRejected(statusCode) = "createCard"
          THEN CallCreateCard(w, write.idx, "rejected")
          ELSE /\ write' = UpdateAllFields(w, tasks[write.idx])
               /\ UNCHANGED <<tasks, defaultsCategories>>
    /\ UNCHANGED <<issued, ret, pass>>

(* createCard's request fulfils: the tap stores the id of the new card *)
CreateCardOk ==
    /\ write.pc = "createCard"
    /\ \E id \in NewCardIds :
       \E r \in {setField(tasks[write.idx], defaultsCategories, F_TRELLO_ID, id)} :
          /\ tasks' = [tasks EXCEPT ![write.idx] = r.t]
          /\ write' = UpdateAllFields([write EXCEPT !.create = "ok", !.newId = id], r.t)
    /\ UNCHANGED <<defaultsCategories, issued, ret, pass>>

CreateCardRejected ==
    /\ write.pc = "createCard"
    /\ write' = [write EXCEPT !.pc = "rejected", !.create = "failed", !.err = "StatusCodeError"]
    /\ UNCHANGED <<tasks, defaultsCategories, issued, ret, pass>>

(* one updateCustomField fulfils: the loop sends the next field, or the last
   callback of writeTask sets trelloCardMade *)
UpdateCustomFieldOk ==
    /\ write.pc = "updateCustomField"
    /\ IF Len(write.pending) > 1
       THEN /\ write' = Issue([write EXCEPT !.pending = Tail(@)],
                              Request("updateCustomField", write.requests[Len(write.requests)].cardId,
                                      write.pending[2], write.raw[write.pending[2]], NoMain))
            /\ UNCHANGED tasks
       ELSE /\ write' = [write EXCEPT !.pending = <<>>, !.pc = "fulfilled"]
            /\ tasks' = [tasks EXCEPT ![write.idx].trelloCardMade = wasFieldUpdated(tasks[write.idx], F_TRELLO_ID)]
    /\ UNCHANGED <<defaultsCategories, issued, ret, pass>>

(* a rejection that is passed over: the loop sends the next field all the same *)
UpdateCustomFieldRejectedGoesOn ==
    /\ write.pc = "updateCustomField"
    /\ Len(write.pending) > 1
    /\ write' = Issue([write EXCEPT !.pending = Tail(@), !.err = "StatusCodeError"],
                      Request("updateCustomField", write.requests[Len(write.requests)].cardId,
                              write.pending[2], write.raw[write.pending[2]], NoMain))
    /\ UNCHANGED <<tasks, defaultsCategories, issued, ret, pass>>

(* one updateCustomField rejects: the await throws out of the loop *)
UpdateCustomFieldRejected ==
    /\ write.pc = "updateCustomField"
    /\ write' = [write EXCEPT !.pc = "rejected", !.err = "StatusCodeError"]
    /\ UNCHANGED <<tasks, defaultsCategories, issued, ret, pass>>

(* the caller has seen the outcome of the write *)
WriteSettled ==
    /\ write.pc \in {"fulfilled", "rejected", "thrown"}
    /\ write' = NoWrite
    /\ UNCHANGED <<tasks, defaultsCategories, issued, ret, pass>>

(* tasks to write: with and without a card id and a program id, with the
   categories in the shared defaults array or in an array of their own *)
WriteTasks ==
    {[NewTask EXCEPT !.fields = [@ EXCEPT ![F_TRELLO_ID] = id, ![F_GOOGLE_ID] = g,
                                          ![F_NAME] = Str(<<3>>), ![F_DESCRIPTION] = Str(<<4>>),
                                          ![F_DAYS] = Num(3), ![F_IS_BEGINNER] = Bool(FALSE),
                                          ![F_MAX_INSTANCES] = Num(1), ![F_CATEGORIES] = c],
                     !.updatedFields = u] :
        id \in {Null, Str(<<1>>)}, g \in {Null, Str(<<1>>)},
        c \in {DefaultsRef, List(<<>>), List(<<CODING, QA>>)},
        u \in {{}, {F_TRELLO_ID}}}

InitWrite ==
    /\ tasks \in {<<t>> : t \in WriteTasks}
    /\ defaultsCategories \in {<<>>, <<DESIGN>>}
    /\ issued = NoneIssued
    /\ ret = NoCall
    /\ write = NoWrite
    /\ pass = NoPass

NextWrite ==
    \/ WriteTask(1)
    \/ UpdateCardMainOk
    \/ UpdateCardMainRejected
    \/ CreateCardOk
    \/ CreateCardRejected
    \/ UpdateCustomFieldOk
    \/ UpdateCustomFieldRejected
    \/ WriteSettled

SpecWrite == InitWrite /\ [][NextWrite]_vars

---------------------------------------------------------------------------
(* Properties of writeOrCreate within writeTask, checked under SpecWrite *)

(* the task being written, and the card id it held when the write began *)
Written == tasks[write.idx]

IdAtStart == write.pre.fields[F_TRELLO_ID]

(* C3: for a record whose card id is set, when the update of the main fields
   fails with status 404 createCard is invoked exactly once, and when that
   creation succeeds the record's card id is the id of the new card and is
   dirty; when the update succeeds createCard is not invoked and the card id
   is unchanged. *)
C3_NotFoundFallsBackToCreate ==
    (write.idx # 0 /\ Truthy(IdAtStart)) =>
        /\ write.main = "notFound" => write.createCalls = 1
        /\ (write.main = "notFound" /\ write.create = "ok")
              => /\ Written.fields[F_TRELLO_ID] = write.newId
                 /\ wasFieldUpdated(Written, F_TRELLO_ID)
        /\ write.main = "ok"
              => /\ write.createCalls = 0
                 /\ Written.fields[F_TRELLO_ID] = IdAtStart

C3_Witness ==
    /\ write.pc = "fulfilled"
    /\ Truthy(IdAtStart)
    /\ write.main = "notFound"
    /\ write.create = "ok"
    /\ write.createCalls = 1
    /\ Written.fields[F_TRELLO_ID] = write.newId
    /\ write.newId # IdAtStart

(* C4: when the update of the main fields fails with a failure other than
   404, writeOrCreate fails with it (the write is rejected), no card is
   created and no custom-field update of the write is issued. *)
C4_OtherFailurePropagates ==
    write.main = "failed" =>
        /\ write.pc = "rejected"
        /\ write.createCalls = 0
        /\ \A k \in 1..Len(write.requests) : write.requests[k].op # "updateCustomField"

---------------------------------------------------------------------------
(* Properties of the parse of a card, checked under SpecParse *)

(* the card's list is the list of a category that is not checked on the card *)
ListCategoryUnchecked(card) ==
    \E c \in Categories :
        /\ CategoryLists[c] = card.idList
        /\ ~(card.hasItems /\ card.items[CategoryFieldOf[c]] = ItemChecked(TRUE))

(* C11: after a card is parsed into a record, the record's listCategoryAdded
   flag is true exactly when the card's list is the list of a category that
   is not among the card's checked category fields, whatever the flag was
   before the parse. *)
C11_FlagIffListCategoryAdded ==
    Parsed => (After.listCategoryAdded <=> ListCategoryUnchecked(ret.cards[1]))

C11_Witness ==
    /\ Parsed
    /\ BeforeParse.listCategoryAdded
    /\ ~After.listCategoryAdded
    /\ ret.cards[1].idList = CategoryLists[QA]
    /\ ret.cards[1].items[CF_isQa] = ItemChecked(TRUE)
    /\ ret.cards[1].hasItems

---------------------------------------------------------------------------
(* doesTaskMatchData applied to one record and one card *)

CrossIdItems == {NoItem, ItemNull, ItemText(<<>>), ItemText(<<1>>), ItemText(<<2>>), ItemNumber(5), ItemNumber(6)}

MatchCards ==
    {[NoCard EXCEPT !.id = id, !.hasItems = hasItems, !.items = [@ EXCEPT ![CF_googleId] = g]] :
        id \in TrelloIds, hasItems \in BOOLEAN, g \in CrossIdItems}

MatchTasks ==
    {[NewTask EXCEPT !.fields = [@ EXCEPT ![F_TRELLO_ID] = a, ![F_GOOGLE_ID] = b]] :
        a \in {Null} \cup TrelloIds, b \in {Null, Str(<<1>>), Num(5)}}

CallDoesTaskMatchData ==
    /\ ret = NoCall
    /\ \E data \in MatchCards :
       \E r \in {doesTaskMatchData(tasks[1], data)} :
          ret' = [Outcome("doesTaskMatchData", 1, "", Undefined, r.err, r.val) EXCEPT !.cards = <<data>>]
    /\ UNCHANGED <<tasks, defaultsCategories, issued, write, pass>>

InitMatch ==
    /\ tasks \in {<<t>> : t \in MatchTasks}
    /\ defaultsCategories = <<>>
    /\ issued = NoneIssued
    /\ ret = NoCall
    /\ write = NoWrite
    /\ pass = NoPass

NextMatch ==
    \/ CallDoesTaskMatchData
    \/ Continue

SpecMatch == InitMatch /\ [][NextMatch]_vars

(* the cross-system id a card carries in its custom field, undefined when it
   carries none *)
CrossId(card) ==
    LET item == card.items[CF_googleId] IN
    IF ~card.hasItems THEN Undefined
    ELSE IF item[1] = 24 THEN Str(Tail(item))
    ELSE IF item[1] = 23 THEN Num(item[2])
    ELSE Undefined

(* C12: doesTaskMatchData is true exactly when the record's board id equals
   the card's id, or the card carries a non-empty cross-system id custom
   field whose value equals the record's program id. *)
C12_MatchIffEitherId ==
    ret.op = "doesTaskMatchData" =>
        /\ ret.err = "none"
        /\ Truthy(ret.val) <=>
              \/ Before.fields[F_TRELLO_ID] = ret.cards[1].id
              \/ /\ CrossId(ret.cards[1]) \notin {Undefined, EmptyStr}
                 /\ CrossId(ret.cards[1]) = Before.fields[F_GOOGLE_ID]

---------------------------------------------------------------------------
(* Properties of the predicate lookup of loadAllTasks, checked under Spec *)

(* the records of the registry, as it was before the call, that hold the
   card's id, and those that hold the card's cross-system id *)
HeldByBoardId(card) == {k \in 1..Len(ret.pre) : ret.pre[k].fields[F_TRELLO_ID] = card.id}

HeldByCrossId(card) ==
    {k \in 1..Len(ret.pre) : Truthy(CrossId(card)) /\ ret.pre[k].fields[F_GOOGLE_ID] = CrossId(card)}

(* C13: when the registry holds a record whose board id is the card's id and
   a different record whose program id is the card's cross-system id, the
   predicate lookup of loadAllTasks returns the record matched by board id,
   whatever the order the two records were inserted in. *)
C13_BoardIdPreferred ==
    (ret.op = "loadAllTasks" /\ ret.cards # <<>>
        /\ HeldByBoardId(ret.cards[1]) # {}
        /\ HeldByCrossId(ret.cards[1]) \ HeldByBoardId(ret.cards[1]) # {})
    => Elems(ret.value, <<>>)[1] \in HeldByBoardId(ret.cards[1])

---------------------------------------------------------------------------
(* TaskList.writeToTrello: a full write of every task of the registry.  Each
   task's write is the process of SpecWrite; of it the batch sees the call
   that starts it and the settlement of its promise. *)

BatchTasks ==
    {[NewTask EXCEPT !.fields = [@ EXCEPT ![F_TRELLO_ID] = id, ![F_GOOGLE_ID] = g,
                                          ![F_NAME] = Str(<<3>>), ![F_DESCRIPTION] = Str(<<4>>),
                                          ![F_DAYS] = Num(3), ![F_IS_BEGINNER] = Bool(FALSE),
                                          ![F_MAX_INSTANCES] = Num(1)],
                     !.updatedFields = u] :
        id \in {Null, Str(<<1>>)}, g \in {Null, Str(<<1>>)}, u \in {{}, {F_NAME}}}

(* the forEach of writeToTrello from task k on: task.writeToTrello is called
   for each task in turn, and a call that throws ends the loop *)
RECURSIVE StartWrites(_, _, _, _)
StartWrites(ts, dc, k, parts) ==
    IF k > Len(ts)
    THEN [tasks |-> ts, dc |-> dc, parts |-> parts, err |-> "none"]
    ELSE LET b == writeTaskBegin(ts[k], dc)
         IN IF b.err # "none"
            THEN [tasks |-> [ts EXCEPT ![k] = b.t], dc |-> b.dc, err |-> b.err,
                  parts |-> parts \o <<"thrown">> \o [j \in 1..(Len(ts) - k) |-> "notStarted"]]
            ELSE StartWrites([ts EXCEPT ![k] = b.t], b.dc, k + 1, Append(parts, "pending"))

(* a Promise.all that fulfils with the first part that does *)
AllAfterAny(pc, parts) ==
    IF pc # "pending" THEN pc
    ELSE IF \E j \in 1..Len(parts) : parts[j] = "rejected" THEN "rejected"
    ELSE IF parts = <<>> \/ \E j \in 1..Len(parts) : parts[j] = "fulfilled" THEN "fulfilled"
    ELSE "pending"

(* Promise.all over the promises of the parts, when one of them settles *)
AllAfter(pc, parts) ==
    IF pc # "pending" THEN pc
    ELSE IF \E j \in 1..Len(parts) : parts[j] = "rejected" THEN "rejected"
    ELSE IF \A j \in 1..Len(parts) : parts[j] = "fulfilled" THEN "fulfilled"
    ELSE "pending"

WriteToTrello ==
    /\ pass.pc = "idle"
    /\ ret = NoCall
    /\ write.pc = "idle"
    /\ \E r \in {StartWrites(tasks, defaultsCategories, 1, <<>>)} :
          /\ tasks' = r.tasks
          /\ defaultsCategories' = r.dc
          /\ pass' = [NoPass EXCEPT !.op = "writeToTrello", !.parts = r.parts,
                                    !.pc = IF r.err # "none" THEN "thrown" ELSE AllAfter("pending", r.parts)]
    /\ UNCHANGED <<issued, ret, write>>

TaskWriteFulfilled ==
    /\ pass.op = "writeToTrello"
    /\ \E i \in 1..Len(pass.parts) :
          /\ pass.parts[i] = "pending"
          /\ \E parts \in {[pass.parts EXCEPT ![i] = "fulfilled"]} :
                pass' = [pass EXCEPT !.parts = parts, !.pc = AllAfter(@, parts), !.log = Append(@, i)]
    /\ UNCHANGED <<tasks, defaultsCategories, issued, ret, write>>

TaskWriteRejected ==
    /\ pass.op = "writeToTrello"
    /\ \E i \in 1..Len(pass.parts) :
          /\ pass.parts[i] = "pending"
          /\ \E parts \in {[pass.parts EXCEPT ![i] = "rejected"]} :
                pass' = [pass EXCEPT !.parts = parts, !.pc = AllAfter(@, parts), !.log = Append(@, i)]
    /\ UNCHANGED <<tasks, defaultsCategories, issued, ret, write>>

(* the caller has seen the outcome of the pass and nothing of it is pending *)
PassSettled ==
    /\ pass.pc \in {"fulfilled", "rejected", "thrown"}
    /\ \A j \in 1..Len(pass.parts) : pass.parts[j] # "pending"
    /\ pass' = NoPass
    /\ UNCHANGED <<tasks, defaultsCategories, issued, ret, write>>

InitBatch ==
    /\ tasks \in UNION {[1..n -> BatchTasks] : n \in 1..MaxTasks}
    /\ defaultsCategories = <<>>
    /\ issued = NoneIssued
    /\ ret = NoCall
    /\ write = NoWrite
    /\ pass = NoPass

NextBatch ==
    \/ WriteToTrello
    \/ TaskWriteFulfilled
    \/ TaskWriteRejected
    \/ PassSettled

SpecBatch == InitBatch /\ [][NextBatch]_vars

(* C14: in a batch write a write is started for every record of the registry,
   the batch does not fail when a record's write fails, and it completes
   successfully once every record's write has finished, whether that write
   succeeded or failed. *)
C14_BatchWriteIsolation ==
    pass.op = "writeToTrello" =>
        /\ Len(pass.parts) = Len(tasks)
        /\ \A i \in 1..Len(pass.parts) : pass.parts[i] # "notStarted"
        /\ pass.pc \notin {"rejected", "thrown"}
        /\ pass.pc = "fulfilled" <=> \A i \in 1..Len(pass.parts) : pass.parts[i] \in {"fulfilled", "rejected"}

---------------------------------------------------------------------------
(* TaskList.loadFromGoogle and TaskList.loadFromTrello: the bulk loads.  A
   part of the pass is one fetch: a page of the program, or the list of a
   category of the board. *)

MaxPages == 2

(* the forEach of _loadFromGoogle over results[k..] *)
RECURSIVE LoadResults(_, _, _, _, _)
LoadResults(ts, dc, iss, results, k) ==
    IF k > Len(results)
    THEN [tasks |-> ts, dc |-> dc, issued |-> iss, err |-> "none"]
    ELSE LET got == getTaskFromGoogle(ts, results[k].id)
             r == loadFromGoogle(results[k], got.tasks[got.index], dc)
             ts2 == [got.tasks EXCEPT ![got.index] = r.t]
             iss2 == [iss EXCEPT !.google[results[k].id] = IF @ = 0 THEN got.index ELSE @]
         IN IF r.err # "none"
            THEN [tasks |-> ts2, dc |-> r.dc, issued |-> iss2, err |-> r.err]
            ELSE LoadResults(ts2, r.dc, iss2, results, k + 1)

(* the forEach of loadFromTrello's callback over body[k..] *)
RECURSIVE LoadItems(_, _, _, _, _)
LoadItems(ts, dc, iss, items, k) ==
    IF k > Len(items)
    THEN [tasks |-> ts, dc |-> dc, issued |-> iss, err |-> "none"]
    ELSE LET got == getTaskFromTrello(ts, items[k].id)
             r == loadFromTrello(items[k], got.tasks[got.index], dc)
             ts2 == [got.tasks EXCEPT ![got.index] = r.t]
             iss2 == [iss EXCEPT !.trello[items[k].id] = IF @ = 0 THEN got.index ELSE @]
         IN IF r.err # "none"
            THEN [tasks |-> ts2, dc |-> r.dc, issued |-> iss2, err |-> r.err]
            ELSE LoadItems(ts2, r.dc, iss2, items, k + 1)

(* the cards a list fetch returns, and the results a page holds *)
ListCards == {IdCard(id, NoItem) : id \in TrelloIds}

(* the promise of the pass once the parts stand as given: resolve() is called
   when the last page is in, Promise.all fulfils when every category promise
   is resolved; nothing rejects it *)
LoadAfter(parts) == IF \A j \in 1..Len(parts) : parts[j] = "done" THEN "fulfilled" ELSE "pending"

LoadFromGoogle ==
    /\ pass.pc = "idle"
    /\ ret = NoCall
    /\ pass' = [NoPass EXCEPT !.op = "loadFromGoogle", !.pc = "pending", !.parts = <<"pending">>]
    /\ UNCHANGED <<tasks, defaultsCategories, issued, ret, write>>

(* getTaskPage fulfils with a page: its results are folded in, and the next
   page is requested or the pass resolved *)
PageFetched ==
    /\ pass.op = "loadFromGoogle"
    /\ pass.parts[Len(pass.parts)] = "pending"
    /\ \E results \in Batches(GoogleTasks, MaxCards), next \in BOOLEAN :
       \E r \in {LoadResults(tasks, defaultsCategories, issued, results, 1)} :
          /\ next => Len(pass.parts) < MaxPages
          /\ Len(r.tasks) <= MaxTasks
          /\ tasks' = r.tasks
          /\ defaultsCategories' = r.dc
          /\ issued' = r.issued
          /\ \E parts \in {[pass.parts EXCEPT ![Len(pass.parts)] = IF r.err = "none" THEN "done" ELSE "failed"]} :
                pass' = IF r.err # "none" THEN [pass EXCEPT !.parts = parts]
                        ELSE IF next THEN [pass EXCEPT !.parts = Append(parts, "pending")]
                        ELSE [pass EXCEPT !.parts = parts, !.pc = LoadAfter(parts)]
    /\ UNCHANGED <<ret, write>>

(* getTaskPage rejects: no handler is attached to the rejection *)
PageFetchFailed ==
    /\ pass.op = "loadFromGoogle"
    /\ pass.parts[Len(pass.parts)] = "pending"
    /\ pass' = [pass EXCEPT !.parts[Len(pass.parts)] = "failed"]
    /\ UNCHANGED <<tasks, defaultsCategories, issued, ret, write>>

LoadFromTrello ==
    /\ pass.pc = "idle"
    /\ ret = NoCall
    /\ pass' = [NoPass EXCEPT !.op = "loadFromTrello", !.pc = "pending",
                              !.parts = [c \in 1..Cardinality(Categories) |-> "pending"]]
    /\ UNCHANGED <<tasks, defaultsCategories, issued, ret, write>>

(* getListCards fulfils for a category: its cards are folded in and the
   category's promise resolved *)
ListFetched ==
    /\ pass.op = "loadFromTrello"
    /\ \E c \in 1..Len(pass.parts), items \in Batches(ListCards, MaxCards) :
       \E r \in {LoadItems(tasks, defaultsCategories, issued, items, 1)} :
          /\ pass.parts[c] = "pending"
          /\ Len(r.tasks) <= MaxTasks
          /\ tasks' = r.tasks
          /\ defaultsCategories' = r.dc
          /\ issued' = r.issued
          /\ \E parts \in {[pass.parts EXCEPT ![c] = IF r.err = "none" THEN "done" ELSE "failed"]} :
                pass' = [pass EXCEPT !.parts = parts, !.pc = LoadAfter(parts)]
    /\ UNCHANGED <<ret, write>>

(* getListCards rejects for a category: no handler is attached to the rejection *)
ListFetchFailed ==
    /\ pass.op = "loadFromTrello"
    /\ \E c \in 1..Len(pass.parts) :
          /\ pass.parts[c] = "pending"
          /\ pass' = [pass EXCEPT !.parts[c] = "failed"]
    /\ UNCHANGED <<tasks, defaultsCategories, issued, ret, write>>

InitLoad ==
    /\ tasks = <<>>
    /\ defaultsCategories = <<>>
    /\ issued = NoneIssued
    /\ ret = NoCall
    /\ write = NoWrite
    /\ pass = NoPass

NextLoad ==
    \/ LoadFromGoogle
    \/ PageFetched
    \/ PageFetchFailed
    \/ LoadFromTrello
    \/ ListFetched
    \/ ListFetchFailed
    \/ PassSettled

(* every fetch in flight is answered in the end *)
SpecLoad == InitLoad /\ [][NextLoad]_vars /\ WF_vars(NextLoad)

(* C15: a bulk load always completes in the end: it returns once all pages or
   lists are exhausted, and when a fetch fails it is rejected rather than
   pending for ever. *)
C15_LoadPassSettles == (pass.pc = "pending") ~> (pass.pc \in {"fulfilled", "rejected"})

---------------------------------------------------------------------------
(* C16: after every parse of a card into a record that completes, the
   record's last-modified field equals the card's last-activity timestamp,
   an absent one included and whatever the field held before, and the field
   is dirty. *)
C16_LastModifiedDirectWrite ==
    (Parsed /\ ret.err = "none") =>
        /\ After.fields[F_LAST_MODIFIED] = ret.cards[1].dateLastActivity
        /\ F_LAST_MODIFIED \in After.updatedFields

---------------------------------------------------------------------------
(* the categories of the task being written, as they stood when the write began *)
CategoriesAtStart == Elems(write.pre.fields[F_CATEGORIES], write.preDc)

(* C17: a card is created on the list of the first category of the record's
   category set, or on the default list when the set is empty, and the main
   section submitted carries the record's name and description and no id. *)
C17_CreateCardDestination ==
    \A k \in 1..Len(write.requests) :
        write.requests[k].op = "createCard" =>
            /\ write.requests[k].main.idList =
                  IF CategoriesAtStart # <<>> THEN CategoryLists[CategoriesAtStart[1]]
                  ELSE CategoryLists[1]
            /\ write.requests[k].main.name = write.pre.fields[F_NAME]
            /\ write.requests[k].main.desc = write.pre.fields[F_DESCRIPTION]
            /\ ~write.requests[k].main.hasId

---------------------------------------------------------------------------
(* The custom field codec: valueToCustomField and customFieldToValue applied
   to values and to raw custom fields *)

MaxText == 3

MaxNumber == 3

CodecTexts == UNION {[1..n -> 1..3] : n \in 0..MaxText}

CodecValues ==
    {Undefined, Null, Bool(TRUE), Bool(FALSE), List(<<>>), List(<<1>>), Dict(<<>>), Dict(<<1>>)}
        \cup {Num(n) : n \in 0..MaxNumber}
        \cup {Str(s) : s \in CodecTexts}

CodecFields ==
    {NoItem, ItemNull, ItemChecked(TRUE), ItemChecked(FALSE), ItemOther, ItemCleared}
        \cup {ItemNumber(n) : n \in 0..MaxNumber}
        \cup {ItemText(s) : s \in CodecTexts}

CallValueToCustomField ==
    /\ ret = NoCall
    /\ \E value \in CodecValues :
       \E r \in {valueToCustomField(value)} :
          ret' = Outcome("valueToCustomField", 0, "", value, r.err, r.val)
    /\ UNCHANGED <<tasks, defaultsCategories, issued, write, pass>>

(* the field valueToCustomField has just made is read back *)
CallRoundTrip ==
    /\ ret.op = "valueToCustomField"
    /\ ret.err = "none"
    /\ \E r \in {customFieldToValue(ret.val)} :
          ret' = [Outcome("roundTrip", 0, "", ret.value, r.err, r.val) EXCEPT !.cards = <<ret.val>>]
    /\ UNCHANGED <<tasks, defaultsCategories, issued, write, pass>>

CallCustomFieldToValue ==
    /\ ret = NoCall
    /\ \E field \in CodecFields :
       \E r \in {customFieldToValue(field)} :
          ret' = [Outcome("customFieldToValue", 0, "", Undefined, r.err, r.val) EXCEPT !.cards = <<field>>]
    /\ UNCHANGED <<tasks, defaultsCategories, issued, write, pass>>

InitCodec ==
    /\ tasks = <<>>
    /\ defaultsCategories = <<>>
    /\ issued = NoneIssued
    /\ ret = NoCall
    /\ write = NoWrite
    /\ pass = NoPass

NextCodec ==
    \/ CallValueToCustomField
    \/ CallRoundTrip
    \/ CallCustomFieldToValue
    \/ Continue

SpecCodec == InitCodec /\ [][NextCodec]_vars

(* C18: for every boolean, string and number value v,
   customFieldToValue(valueToCustomField(v)) equals v; valueToCustomField
   throws a TypeError for a value of any other type; customFieldToValue of a
   field whose value is null is false. *)
C18_CodecRoundTrip ==
    /\ ret.op = "valueToCustomField" =>
          (ret.err = "TypeError" <=> TypeOf(ret.value) \notin {"boolean", "string", "number"})
    /\ ret.op = "roundTrip" => (ret.err = "none" /\ ret.val = ret.value)
    /\ (ret.op = "customFieldToValue" /\ ret.cards[1] = ItemNull) =>
          (ret.err = "none" /\ ret.val = Bool(FALSE))

---------------------------------------------------------------------------
(* writeFields as the steps of its async body: each action runs from one
   response of the board to the next request.  During the loop write.raw is
   rawCustom and write.pending its keys in insertion order. *)

MaxAltered == 2

(* rawCustom[cf] = item *)
Stage(w, cf, item) ==
    [w EXCEPT !.raw = [k \in (DOMAIN w.raw) \cup {cf} |-> IF k = cf THEN item ELSE w.raw[k]],
              !.pending = IF cf \in DOMAIN w.raw THEN @ ELSE Append(@, cf)]

(* Object.assign(rawCustom, serialised), key by key in the order of keys *)
RECURSIVE StageAll(_, _, _)
StageAll(w, serialised, keys) ==
    IF keys = <<>> THEN w
    ELSE StageAll(Stage(w, Head(keys), serialised[Head(keys)]), serialised, Tail(keys))

(* the switch of writeFields: the custom field an altered field is staged
   under and the task field whose value is serialised for it *)
StagedUnder ==
    [f \in {F_GOOGLE_ID, F_DAYS, F_IS_BEGINNER, F_MAX_INSTANCES} |->
        CASE f = F_GOOGLE_ID -> [cf |-> CF_googleId, from |-> F_GOOGLE_ID]
          [] f = F_DAYS -> [cf |-> CF_days, from |-> F_GOOGLE_ID]
          [] f = F_IS_BEGINNER -> [cf |-> CF_isBeginner, from |-> F_GOOGLE_ID]
          [] OTHER -> [cf |-> CF_instances, from |-> F_GOOGLE_ID]]

(* createCard called from writeOrCreate within writeFields *)
FieldsCreate(w, t, dc) ==
    LET made == createCard(t, dc) IN
    IF made.err # "none"
    THEN [w |-> [w EXCEPT !.pc = "rejected", !.err = made.err, !.createCalls = @ + 1],
          t |-> made.t, dc |-> made.dc]
    ELSE [w |-> Issue([w EXCEPT !.pc = "fieldsCreate", !.createCalls = @ + 1],
                      Request("createCard", Undefined, "", Undefined, made.val)),
          t |-> made.t, dc |-> made.dc]

(* the loop of writeFields from the altered fields still to go through up to
   its next await, and after the loop _updateAllFields up to its first *)
RECURSIVE FieldsLoop(_, _, _)
FieldsLoop(w, t, dc) ==
    IF w.todo = <<>>
    THEN IF w.pending = <<>>
         THEN [w |-> [w EXCEPT !.pc = "fulfilled"], t |-> t, dc |-> dc]
         ELSE [w |-> Issue([w EXCEPT !.pc = "fieldsCustom"],
                           Request("updateCustomField", t.fields[F_TRELLO_ID], w.pending[1],
                                   w.raw[w.pending[1]], NoMain)),
               t |-> t, dc |-> dc]
    ELSE LET alteredField == Head(w.todo)
             rest == [w EXCEPT !.todo = Tail(@)]
             thrown == [w |-> [rest EXCEPT !.pc = "rejected", !.err = "TypeError"], t |-> t, dc |-> dc]
         IN CASE alteredField \in {F_NAME, F_DESCRIPTION} ->
                    IF Truthy(t.fields[F_TRELLO_ID])
                    THEN [w |-> Issue([rest EXCEPT !.pc = "fieldsMain"],
                                      Request("updateCardMain", t.fields[F_TRELLO_ID], "", Undefined, mainToRaw(t))),
                          t |-> t, dc |-> dc]
                    ELSE FieldsCreate(rest, t, dc)
              [] alteredField = F_CATEGORIES ->
                    IF serialiseCategories(t, dc).err # "none" THEN thrown
                    ELSE FieldsLoop(StageAll(rest, serialiseCategories(t, dc).val, SubSeq(RawOrder, 1, 5)), t, dc)
              [] alteredField = F_TAGS ->
                    IF serialiseTags(t, dc).err # "none" THEN thrown
                    ELSE FieldsLoop(Stage(rest, CF_tags, serialiseTags(t, dc).val), t, dc)
              [] alteredField \in DOMAIN StagedUnder ->
                    IF getCustomFieldFromTask(StagedUnder[alteredField].from, t).err # "none" THEN thrown
                    ELSE FieldsLoop(Stage(rest, StagedUnder[alteredField].cf,
                                          getCustomFieldFromTask(StagedUnder[alteredField].from, t).val), t, dc)
              [] OTHER -> FieldsLoop(rest, t, dc)

(* the orders in which a set of fields can be handed over *)
Orderings(S) == {s \in [1..Cardinality(S) -> S] : \A j, k \in 1..Cardinality(S) : j # k => s[j] # s[k]}

WriteFields(i) ==
    /\ write.pc = "idle"
    /\ ret = NoCall
    /\ \E alteredFields \in Orderings(tasks[i].updatedFields) :
       \E r \in {FieldsLoop([NoWrite EXCEPT !.idx = i, !.pre = tasks[i], !.preDc = defaultsCategories,
                                            !.todo = alteredFields], tasks[i], defaultsCategories)} :
          /\ tasks' = [tasks EXCEPT ![i] = r.t]
          /\ defaultsCategories' = r.dc
          /\ write' = r.w
    /\ UNCHANGED <<issued, ret, pass>>

(* updateCardMain fulfils: the loop goes on *)
FieldsUpdateCardMainOk ==
    /\ write.pc = "fieldsMain"
    /\ \E r \in {FieldsLoop([write EXCEPT !.main = "ok"], tasks[write.idx], defaultsCategories)} :
          /\ tasks' = [tasks EXCEPT ![write.idx] = r.t]
          /\ defaultsCategories' = r.dc
          /\ write' = r.w
    /\ UNCHANGED <<issued, ret, pass>>

(* updateCardMain rejects with a status code: the catch handler of
   writeOrCreate runs, then the loop goes on or waits for createCard *)
FieldsUpdateCardMainRejected ==
    /\ write.pc = "fieldsMain"
    /\ \E statusCode \in StatusCodes :
       \E w \in {[write EXCEPT !.main = IF statusCode = 404 THEN "notFound" ELSE "failed"]} :
       \E r \in {IF OnUpdateRejected(statusCode) = "createCard"
                 THEN FieldsCreate(w, tasks[write.idx], defaultsCategories)
                 ELSE FieldsLoop(w, tasks[write.idx], defaultsCategories)} :
          /\ tasks' = [tasks EXCEPT ![write.idx] = r.t]
          /\ defaultsCategories' = r.dc
          /\ write' = r.w
    /\ UNCHANGED <<issued, ret, pass>>

(* createCard's request fulfils: the tap stores the id, the loop goes on *)
FieldsCreateCardOk ==
    /\ write.pc = "fieldsCreate"
    /\ \E id \in NewCardIds :
       \E s \in {setField(tasks[write.idx], defaultsCategories, F_TRELLO_ID, id)} :
       \E r \in {FieldsLoop([write EXCEPT !.create = "ok", !.newId = id], s.t, s.dc)} :
          /\ tasks' = [tasks EXCEPT ![write.idx] = r.t]
          /\ defaultsCategories' = r.dc
          /\ write' = r.w
    /\ UNCHANGED <<issued, ret, pass>>

FieldsCreateCardRejected ==
    /\ write.pc = "fieldsCreate"
    /\ write' = [write EXCEPT !.pc = "rejected", !.create = "failed", !.err = "StatusCodeError"]
    /\ UNCHANGED <<tasks, defaultsCategories, issued, ret, pass>>

(* one updateCustomField fulfils: the next staged field is sent, or
   writeFields returns *)
FieldsUpdateCustomFieldOk ==
    /\ write.pc = "fieldsCustom"
    /\ write' = IF Len(write.pending) > 1
                THEN Issue([write EXCEPT !.pending = Tail(@)],
                           Request("updateCustomField", write.requests[Len(write.requests)].cardId,
                                   write.pending[2], write.raw[write.pending[2]], NoMain))
                ELSE [write EXCEPT !.pending = <<>>, !.pc = "fulfilled"]
    /\ UNCHANGED <<tasks, defaultsCategories, issued, ret, pass>>

FieldsUpdateCustomFieldRejected ==
    /\ write.pc = "fieldsCustom"
    /\ write' = [write EXCEPT !.pc = "rejected", !.err = "StatusCodeError"]
    /\ UNCHANGED <<tasks, defaultsCategories, issued, ret, pass>>

(* the fields the board can take, and one it cannot *)
AlterableFields ==
    {F_NAME, F_DESCRIPTION, F_CATEGORIES, F_TAGS, F_GOOGLE_ID, F_DAYS, F_IS_BEGINNER,
     F_MAX_INSTANCES, F_LAST_MODIFIED}

(* tasks whose fields all hold values, with and without a card id, and with
   up to MaxAltered dirty fields *)
FieldsTasks ==
    {[NewTask EXCEPT !.fields = [@ EXCEPT ![F_TRELLO_ID] = id, ![F_GOOGLE_ID] = Str(<<1>>),
                                          ![F_NAME] = Str(<<3>>), ![F_DESCRIPTION] = Str(<<4>>),
                                          ![F_DAYS] = Num(3), ![F_IS_BEGINNER] = Bool(FALSE),
                                          ![F_MAX_INSTANCES] = Num(1),
                                          ![F_CATEGORIES] = List(<<CODING>>),
                                          ![F_TAGS] = List(<<7>>)],
                     !.updatedFields = u] :
        id \in {Null, Str(<<1>>)},
        u \in {S \in SUBSET AlterableFields : Cardinality(S) <= MaxAltered}}

InitFields ==
    /\ tasks \in {<<t>> : t \in FieldsTasks}
    /\ defaultsCategories = <<>>
    /\ issued = NoneIssued
    /\ ret = NoCall
    /\ write = NoWrite
    /\ pass = NoPass

NextFields ==
    \/ WriteFields(1)
    \/ FieldsUpdateCardMainOk
    \/ FieldsUpdateCardMainRejected
    \/ FieldsCreateCardOk
    \/ FieldsCreateCardRejected
    \/ FieldsUpdateCustomFieldOk
    \/ FieldsUpdateCustomFieldRejected
    \/ WriteSettled

SpecFields == InitFields /\ [][NextFields]_vars

(* the task field each custom field of the board stands for *)
FieldOfCustom ==
    [cf \in {CF_googleId, CF_days, CF_isBeginner, CF_instances} |->
        CASE cf = CF_googleId -> F_GOOGLE_ID
          [] cf = CF_days -> F_DAYS
          [] cf = CF_isBeginner -> F_IS_BEGINNER
          [] OTHER -> F_MAX_INSTANCES]

(* the serialisation of the task's own value for a custom field *)
OwnSerialisation(t, dc, cf) ==
    CASE cf = CF_tags -> serialiseTags(t, dc).val
      [] cf \in DOMAIN FieldOfCustom -> valueToCustomField(t.fields[FieldOfCustom[cf]]).val
      [] OTHER -> serialiseCategories(t, dc).val[cf]

MainRequests == {"updateCardMain", "createCard"}

(* C19: in a write of the dirty fields, the value sent for each custom field
   is the serialisation of that same field of the record (as it stood when
   the write began or as it stands now); a dirty name or
   description is routed to writeOrCreate (a request for the main section
   goes out), and no custom field is sent before all dirty fields have been
   gone through. *)
C19_FieldsSerialisedIndependently ==
    write.pc \in {"fieldsMain", "fieldsCreate", "fieldsCustom", "fulfilled"} =>
        /\ \A k \in 1..Len(write.requests) :
              write.requests[k].op = "updateCustomField" =>
                  /\ write.requests[k].value \in
                        {OwnSerialisation(write.pre, write.preDc, write.requests[k].field),
                         OwnSerialisation(Written, defaultsCategories, write.requests[k].field)}
                  /\ write.todo = <<>>
                  /\ \A j \in k..Len(write.requests) : write.requests[j].op = "updateCustomField"
        /\ (write.pc \in {"fieldsCustom", "fulfilled"}
                /\ write.pre.updatedFields \cap {F_NAME, F_DESCRIPTION} # {})
              => \E k \in 1..Len(write.requests) : write.requests[k].op \in MainRequests

---------------------------------------------------------------------------
(* TaskList.handleWebhookActivate: one notification of the board, handled in
   one run.  pass.log holds what the handler did, in order, with the dirty
   set of the record after each step. *)

(* Task.resetStatus(): the record's dirty tracking is reset *)
resetStatus(t) == resetUpdatedFields(t)

(* Task.loadBasicTrello(card): conditional writes of the card's main fields *)
loadBasicTrello(card, t, dc) ==
    LET s1 == ThenSetIfData(Result(t, dc, "none", Undefined), F_TRELLO_ID, Ok(card.id))
        s2 == ThenSetIfData(s1, F_DESCRIPTION, Ok(card.desc))
    IN ThenSetIfData(s2, F_NAME, Ok(card.name))

(* Task.loadCustomTrello([customFieldItem]): a conditional write of the one
   custom field the item is for *)
loadCustomTrello(customFieldItem, t, dc) ==
    ThenSetIfData(Result(t, dc, "none", Undefined), FieldOfCustom[customFieldItem.idCustomField],
                  customFieldToValue(customFieldItem.item))

EventTypes == {"updateCard", "updateCustomFieldItem", "addMemberToCard"}

(* data.action of a notification *)
Events ==
    {[type |-> type,
      card |-> [NoCard EXCEPT !.id = id, !.name = name],
      customFieldItem |-> [idCustomField |-> CF_days, item |-> item]] :
        type \in EventTypes, id \in TrelloIds, name \in {Str(<<5>>)},
        item \in {ItemNull, ItemText(<<2>>)}}

Step(step, t) == [step |-> step, dirty |-> t.updatedFields]

handleWebhookActivate(ts, dc, action) ==
    LET got == getTaskFromTrello(ts, action.card.id)
        reset == resetStatus(got.tasks[got.index])
        applied == CASE action.type = "updateCard" -> loadBasicTrello(action.card, reset, dc)
                     [] action.type = "updateCustomFieldItem" -> loadCustomTrello(action.customFieldItem, reset, dc)
                     [] OTHER -> Result(reset, dc, "none", Undefined)
        applying == CASE action.type = "updateCard" -> "loadBasicTrello"
                      [] action.type = "updateCustomFieldItem" -> "loadCustomTrello"
                      [] OTHER -> "log"
    IN [tasks |-> [got.tasks EXCEPT ![got.index] = applied.t], dc |-> applied.dc,
        index |-> got.index, err |-> applied.err,
        log |-> IF applied.err # "none"
                THEN <<Step("resetStatus", reset), Step(applying, applied.t)>>
                ELSE <<Step("resetStatus", reset), Step(applying, applied.t),
                       Step("writeToGoogle", applied.t)>>]

HandleWebhookActivate ==
    /\ ret = NoCall
    /\ pass.pc = "idle"
    /\ \E action \in Events :
       \E r \in {handleWebhookActivate(tasks, defaultsCategories, action)} :
          /\ Len(r.tasks) <= MaxTasks
          /\ tasks' = r.tasks
          /\ defaultsCategories' = r.dc
          /\ issued' = [issued EXCEPT !.trello[action.card.id] = IF @ = 0 THEN r.index ELSE @]
          /\ ret' = Outcome("handleWebhookActivate", r.index, action.type, action.card.id, r.err, Undefined)
          /\ pass' = [NoPass EXCEPT !.op = "handleWebhookActivate",
                                    !.pc = IF r.err = "none" THEN "fulfilled" ELSE "thrown",
                                    !.log = r.log]
    /\ UNCHANGED write

InitEvent ==
    /\ tasks = <<>>
    /\ defaultsCategories = <<>>
    /\ issued = NoneIssued
    /\ ret = NoCall
    /\ write = NoWrite
    /\ pass = NoPass

NextEvent ==
    \/ HandleWebhookActivate
    \/ Continue
    \/ PassSettled

SpecEvent == InitEvent /\ [][NextEvent]_vars

(* a notification has just been handled *)
Handled == ret.op = "handleWebhookActivate" /\ pass.op = "handleWebhookActivate"

(* C20: for every notification the record's dirty set is cleared before any
   field of the event is applied, and the dirty-only write to the program is
   issued after the fields are applied; for an event that is neither a card
   update nor a custom field update the handler is a no-op: no field of a
   record changes, the record's dirty set is empty, and the registry holds
   the same records as before. *)
C20_EventProtocol ==
    Handled =>
        /\ Len(pass.log) = 3
        /\ pass.log[1].step = "resetStatus" /\ pass.log[1].dirty = {}
        /\ pass.log[3].step = "writeToGoogle" /\ pass.log[3].dirty = After.updatedFields
        /\ ret.field \notin {"updateCard", "updateCustomFieldItem"} =>
              /\ After.updatedFields = {}
              /\ Len(tasks) = Len(ret.pre)
              /\ \A k \in 1..Len(ret.pre) : tasks[k].fields = ret.pre[k].fields

---------------------------------------------------------------------------
(* the custom field updates a write has issued so far *)
CustomRequests(w) == {k \in 1..Len(w.requests) : w.requests[k].op = "updateCustomField"}

(* C21: within the write of one record a custom field update is issued only
   when the one before it has fulfilled, so that at most one is in flight;
   when one is rejected the write is rejected and no later field is sent. *)
C21_SequentialCustomFieldWrites ==
    [][/\ Cardinality(CustomRequests(write')) <= Cardinality(CustomRequests(write)) + 1
       /\ Cardinality(CustomRequests(write')) > Cardinality(CustomRequests(write))
             => (CustomRequests(write) = {} \/ UpdateCustomFieldOk)
       /\ UpdateCustomFieldRejected
             => (write'.pc = "rejected" /\ write'.requests = write.requests)
       /\ write.pc = "rejected"
             => Cardinality(CustomRequests(write')) <= Cardinality(CustomRequests(write))]_vars

C21_Witness ==
    /\ write.pc = "rejected"
    /\ write.main = "ok"
    /\ Cardinality(CustomRequests(write)) = 3
    /\ write.requests[Len(write.requests)].field = RawOrder[3]

---------------------------------------------------------------------------
(* C22: writeTask clears the dirty set first, issues no custom field update
   before writeOrCreate has completed, addresses every custom field update
   to the record's card id as it is after writeOrCreate, and on completion
   trelloCardMade is true exactly when a card was created during the call
   (the card id is dirty) and false when an existing card was updated. *)
C22_WriteTaskFlagAndOrder ==
    write.idx # 0 =>
        /\ Written.updatedFields \subseteq {F_TRELLO_ID}
        /\ wasFieldUpdated(Written, F_TRELLO_ID) <=> write.create = "ok"
        /\ write.pc \in {"updateCardMain", "createCard"} => CustomRequests(write) = {}
        /\ \A k \in CustomRequests(write) :
              /\ write.requests[k].cardId = Written.fields[F_TRELLO_ID]
              /\ \A j \in 1..Len(write.requests) : write.requests[j].op \in MainRequests => j < k
        /\ write.pc = "fulfilled" =>
              /\ Written.trelloCardMade <=> write.create = "ok"
              /\ write.create = "ok" => Written.fields[F_TRELLO_ID] = write.newId
              /\ write.create # "ok" => Written.fields[F_TRELLO_ID] = IdAtStart

C22_Witness ==
    /\ write.pc = "fulfilled"
    /\ F_TRELLO_ID \in write.pre.updatedFields
    /\ IdAtStart = Null
    /\ write.create = "ok"
    /\ Written.trelloCardMade
    /\ Cardinality(CustomRequests(write)) = Len(RawOrder)
    /\ \A k \in CustomRequests(write) : write.requests[k].cardId = write.newId

---------------------------------------------------------------------------
(* loadAllTasks with its propagations: the callback parses every fetched card
   and starts one propagateCategoryChange per entry of tasksToUpdate; each
   is a part of the pass and sends the five category fields one after the
   other.  pass.log holds the updateCustomField requests issued, those of one
   propagation together and in the order it issued them. *)

(* the keys of serialiseCategories, in insertion order *)
CategoryOrder == SubSeq(RawOrder, 1, 5)

Propagation(part, index, t, field, value) ==
    [part |-> part, task |-> index, cardId |-> t.fields[F_TRELLO_ID], field |-> field, value |-> value]

(* tasksToUpdate.map(propagateCategoryChange) from entry k on: the parts
   started, their first requests, and the error thrown *)
RECURSIVE StartPropagations(_, _, _, _, _, _)
StartPropagations(ts, dc, tasksToUpdate, k, parts, log) ==
    IF k > Len(tasksToUpdate) THEN [parts |-> parts, log |-> log, err |-> "none"]
    ELSE LET t == ts[tasksToUpdate[k]]
             raw == serialiseCategories(t, dc)
         IN IF raw.err # "none" THEN [parts |-> parts, log |-> log, err |-> raw.err]
            ELSE StartPropagations(ts, dc, tasksToUpdate, k + 1, Append(parts, "pending"),
                                   Append(log, Propagation(k, tasksToUpdate[k], t, CategoryOrder[1],
                                                           raw.val[CategoryOrder[1]])))

(* cards of two ids on the list of a category, with the list's category
   checked or not *)
PropCards ==
    {[NoCard EXCEPT !.id = id, !.desc = EmptyStr, !.name = Str(<<3>>),
                    !.idList = CategoryLists[CODING],
                    !.dateLastActivity = Str(<<9>>), !.hasItems = TRUE,
                    !.items = [@ EXCEPT ![CF_isCode] = isCode]] :
        id \in TrelloIds, isCode \in {NoItem, ItemChecked(TRUE)}}

(* the callback of loadAllTasks for the fetched cards, up to the first await
   of each propagation *)
LoadAllTasksPropagating ==
    /\ ret = NoCall
    /\ pass.pc = "idle"
    /\ \E rawCards \in Batches(PropCards, MaxCards) :
       \E r \in {loadAllTasks(tasks, defaultsCategories, rawCards)} :
       \E p \in {StartPropagations(r.tasks, r.dc, r.tasksToUpdate, 1, <<>>, <<>>)} :
          /\ Len(r.tasks) <= MaxTasks
          /\ tasks' = r.tasks
          /\ defaultsCategories' = r.dc
          /\ ret' = [Outcome("loadAllTasks", IF r.found = <<>> THEN 0 ELSE r.found[Len(r.found)], "",
                             List(r.found), r.err, List(r.tasksToUpdate))
                       EXCEPT !.cards = rawCards]
          /\ pass' = [NoPass EXCEPT !.op = "loadAllTasks",
                                    !.parts = IF r.err # "none" THEN <<>> ELSE p.parts,
                                    !.log = IF r.err # "none" THEN <<>> ELSE p.log,
                                    !.pc = IF r.err # "none" \/ p.err # "none" THEN "rejected"
                                           ELSE AllAfter("pending", p.parts)]
    /\ UNCHANGED <<issued, write>>

(* the requests a propagation has issued so far *)
IssuedBy(part) == {k \in 1..Len(pass.log) : pass.log[k].part = part}

(* the log with one more request of a propagation, put after its others *)
Logged(log, request) ==
    LET upto == Cardinality({k \in 1..Len(log) : log[k].part <= request.part})
    IN SubSeq(log, 1, upto) \o <<request>> \o SubSeq(log, upto + 1, Len(log))

(* an updateCustomField of a propagation fulfils: its loop sends the next
   category field, or the propagation fulfils.  No record changes while the
   pass is under way, so the value sent is the one serialised at its start. *)
PropagationFieldOk ==
    /\ pass.op = "loadAllTasks"
    /\ \E j \in 1..Len(pass.parts) :
          /\ pass.parts[j] = "pending"
          /\ \E n \in {Cardinality(IssuedBy(j))}, first \in {CHOOSE k \in IssuedBy(j) : TRUE} :
                IF n < Len(CategoryOrder)
                THEN pass' = [pass EXCEPT !.log = Logged(@,
                                 Propagation(j, pass.log[first].task, tasks[pass.log[first].task],
                                             CategoryOrder[n + 1],
                                             serialiseCategories(tasks[pass.log[first].task],
                                                                 defaultsCategories).val[CategoryOrder[n + 1]]))]
                ELSE \E parts \in {[pass.parts EXCEPT ![j] = "fulfilled"]} :
                        pass' = [pass EXCEPT !.parts = parts, !.pc = AllAfter(@, parts)]
    /\ UNCHANGED <<tasks, defaultsCategories, issued, ret, write>>

(* an updateCustomField of a propagation rejects: the propagation rejects *)
PropagationFieldRejected ==
    /\ pass.op = "loadAllTasks"
    /\ \E j \in 1..Len(pass.parts) :
          /\ pass.parts[j] = "pending"
          /\ \E parts \in {[pass.parts EXCEPT ![j] = "rejected"]} :
                pass' = [pass EXCEPT !.parts = parts, !.pc = AllAfter(@, parts)]
    /\ UNCHANGED <<tasks, defaultsCategories, issued, ret, write>>

InitPropagate ==
    /\ tasks = <<>>
    /\ defaultsCategories = <<>>
    /\ issued = NoneIssued
    /\ ret = NoCall
    /\ write = NoWrite
    /\ pass = NoPass

NextPropagate ==
    \/ LoadAllTasksPropagating
    \/ PropagationFieldOk
    \/ PropagationFieldRejected
    \/ PassSettled
    \/ Continue

SpecPropagate == InitPropagate /\ [][NextPropagate]_vars

(* a board load has been made and its pass is still in view *)
Propagating == ret.op = "loadAllTasks" /\ pass.op = "loadAllTasks"

(* the records the cards of the load were parsed into, in the order of the cards *)
FoundRecords == Elems(ret.value, <<>>)

(* the records whose flag was true at the end of the parse of one of the cards *)
FlaggedRecords ==
    {FoundRecords[k] : k \in {j \in 1..Len(FoundRecords) : ListCategoryUnchecked(ret.cards[j])}}

(* C23: in the board load no propagateCategoryChange request is issued before
   every fetched card has been parsed (each request carries the record as it
   is after all the parses); a propagation is issued for exactly the records
   whose listCategoryAdded flag is true at the end of their parse; and the
   load fulfils only when all those propagations have completed, so that a
   write pass chained to the load starts after them. *)
C23_PropagationOrder ==
    Propagating =>
        /\ pass.log # <<>> => (ret.err = "none" /\ Len(FoundRecords) = Len(ret.cards))
        /\ \A k \in 1..Len(pass.log) :
              /\ pass.log[k].cardId = tasks[pass.log[k].task].fields[F_TRELLO_ID]
              /\ pass.log[k].value =
                    serialiseCategories(tasks[pass.log[k].task], defaultsCategories).val[pass.log[k].field]
        /\ ret.err = "none" => {pass.log[k].task : k \in 1..Len(pass.log)} = FlaggedRecords
        /\ pass.pc = "fulfilled" =>
              /\ ret.err = "none"
              /\ \A j \in 1..Len(pass.parts) :
                    /\ pass.parts[j] = "fulfilled"
                    /\ Cardinality(IssuedBy(j)) = Len(CategoryOrder)

C23_Witness ==
    /\ Propagating
    /\ pass.pc = "fulfilled"
    /\ Len(pass.parts) = 2
    /\ Len(pass.log) = 2 * Len(CategoryOrder)
    /\ FlaggedRecords = {1, 2}

---------------------------------------------------------------------------
(* C24: creating a card for a record, directly or through the fallback after
   a 404, leaves the record's category set unchanged, so that a serialisation
   of the categories after the creation encodes the same categories as one
   before it. *)
C24_CreateCardKeepsCategories ==
    (write.idx # 0 /\ write.createCalls > 0) =>
        /\ CategorySet(Written, defaultsCategories) = SeqToSet(CategoriesAtStart)
        /\ serialiseCategories(Written, defaultsCategories)
              = serialiseCategories(write.pre, write.preDc)

---------------------------------------------------------------------------
(* Two records made by the constructor, and the record operations applied to
   either of them *)

IsolationWrites == {[f |-> F_NAME, v |-> Str(<<1>>)], [f |-> F_CATEGORIES, v |-> List(<<QA>>)]}

IsolationSetField(i) ==
    \E w \in IsolationWrites :
        Apply("setField", i, w.f, w.v, setField(tasks[i], defaultsCategories, w.f, w.v))

IsolationSetIfData(i) ==
    \E w \in IsolationWrites :
        Apply("setIfData", i, w.f, w.v, setIfData(tasks[i], defaultsCategories, w.f, w.v))

IsolationAddCategory(i) ==
    Apply("addCategory", i, F_CATEGORIES, Num(CODING), addCategory(tasks[i], defaultsCategories, CODING))

IsolationRemoveCategory(i) ==
    Apply("removeCategory", i, F_CATEGORIES, Num(CODING), removeCategory(tasks[i], defaultsCategories, CODING))

InitIsolation ==
    /\ tasks = <<NewTask, NewTask>>
    /\ defaultsCategories = <<>>
    /\ issued = NoneIssued
    /\ ret = NoCall
    /\ write = NoWrite
    /\ pass = NoPass

NextIsolation ==
    \/ \E i \in 1..2 : IsolationSetField(i)
    \/ \E i \in 1..2 : IsolationSetIfData(i)
    \/ \E i \in 1..2 : IsolationAddCategory(i)
    \/ \E i \in 1..2 : IsolationRemoveCategory(i)
    \/ Continue

SpecIsolation == InitIsolation /\ [][NextIsolation]_vars

(* C25: addCategory, removeCategory, setField and setIfData applied to one
   record never change the value of a field of another record, its category
   set in particular, two records fresh from the constructor included. *)
C25_RecordIsolation ==
    ret.op \in {"setField", "setIfData", "addCategory", "removeCategory"} =>
        \A j \in 1..Len(tasks) :
            j # ret.idx =>
                \A f \in FieldIds :
                    FieldValue(tasks[j], defaultsCategories, f) = FieldValue(ret.pre[j], ret.preDc, f)

====
